---- MODULE Spec2Model ----
(***************************************************************************)
(* A model of stargate_bridge.client.StargateClient: the quote request,    *)
(* the per-step transaction pipeline (nonce, prepare, estimate, sign,      *)
(* broadcast), the confirmation wait, the route loop and transfer.         *)
(*                                                                         *)
(* Python values are modelled as follows.                                  *)
(*   - a dict is a function whose domain is the set of its keys            *)
(*     (d.get(k, default) is Get(d, k, default));                          *)
(*   - a numeric string (an amount, a transaction value) is a sequence of  *)
(*     character codes, most significant first: 0..9 are the digits and    *)
(*     NonDigit is any other character;                                    *)
(*   - a Python int is an unbounded natural: a sequence of decimal digits, *)
(*     least significant first, without leading zeros (zero is << >>);     *)
(*   - a Python float is an IEEE-754 binary64 value m * 2^e, a record      *)
(*     [m |-> int, e |-> exponent]; every float operation rounds its exact *)
(*     result to DBL_MANT_DIG significant bits, ties to even.              *)
(***************************************************************************)
EXTENDS Integers, Sequences, FiniteSets, TLC

(***************************************************************************)
(* Unbounded naturals (Python int): limbs in base LimbBase, least          *)
(* significant first.                                                      *)
(***************************************************************************)
LimbBase == 10 ^ 4

LimbDigits == 4

Max(a, b) == IF a >= b THEN a ELSE b

Min(a, b) == IF a <= b THEN a ELSE b

RECURSIVE BigNorm(_)
BigNorm(a) ==
    IF Len(a) = 0 THEN << >>
    ELSE IF a[Len(a)] = 0 THEN BigNorm(SubSeq(a, 1, Len(a) - 1))
    ELSE SubSeq(a, 1, Len(a))

RECURSIVE BigOfNat(_)
BigOfNat(n) == IF n = 0 THEN << >> ELSE <<n % LimbBase>> \o BigOfNat(n \div LimbBase)

RECURSIVE NatOfBig(_)
NatOfBig(a) == IF Len(a) = 0 THEN 0 ELSE a[1] + LimbBase * NatOfBig(Tail(a))

BigLimb(a, i) == IF i >= 1 /\ i <= Len(a) THEN a[i] ELSE 0

\* Carry propagation over column sums c (least significant first).
RECURSIVE BigCarry(_, _, _)
BigCarry(c, i, carry) ==
    IF i > Len(c)
    THEN BigOfNat(carry)
    ELSE <<(c[i] + carry) % LimbBase>> \o BigCarry(c, i + 1, (c[i] + carry) \div LimbBase)

BigAdd(a, b) ==
    BigNorm(BigCarry([i \in 1..Max(Len(a), Len(b)) |-> BigLimb(a, i) + BigLimb(b, i)], 1, 0))

\* a - b for a >= b.
RECURSIVE BigBorrow(_, _, _, _)
BigBorrow(a, b, i, borrow) ==
    IF i > Len(a) THEN << >>
    ELSE LET d == a[i] - BigLimb(b, i) - borrow
         IN  IF d < 0
             THEN <<d + LimbBase>> \o BigBorrow(a, b, i + 1, 1)
             ELSE <<d>> \o BigBorrow(a, b, i + 1, 0)

BigSub(a, b) == BigNorm(BigBorrow(a, b, 1, 0))

\* a * d for a small natural d (d * LimbBase is a machine integer).
BigMulSmall(a, d) == BigNorm(BigCarry([i \in 1..Len(a) |-> a[i] * d], 1, 0))

\* Long multiplication, one limb of b at a time.
RECURSIVE BigMulFrom(_, _, _)
BigMulFrom(a, b, j) ==
    IF j > Len(b) THEN << >>
    ELSE BigAdd(BigMulSmall(a, b[j]), <<0>> \o BigMulFrom(a, b, j + 1))

BigMul(a, b) == BigNorm(BigMulFrom(a, b, 1))

BigOdd(a) == Len(a) # 0 /\ a[1] % 2 = 1

\* Floor division by a small natural d > 0: <<quotient, remainder>>.
RECURSIVE BigDivStep(_, _, _, _)
BigDivStep(a, d, i, rem) ==
    IF i = 0 THEN <<<< >>, rem>>
    ELSE LET cur  == rem * LimbBase + a[i]
             rest == BigDivStep(a, d, i - 1, cur % d)
         IN  <<Append(rest[1], cur \div d), rest[2]>>

\* BigDivStep yields the quotient's limbs most significant first.
BigDivSmall(a, d) ==
    LET r == BigDivStep(a, d, Len(a), 0)
        q == r[1]
    IN  <<BigNorm([i \in 1..Len(q) |-> q[i]]), r[2]>>

BigHalf(a) == BigDivSmall(a, 2)[1]

RECURSIVE NatBitLen(_)
NatBitLen(n) == IF n = 0 THEN 0 ELSE 1 + NatBitLen(n \div 2)

\* Shifts are taken ShiftChunk bits at a time: 2^ShiftChunk < LimbBase.
ShiftChunk == NatBitLen(LimbBase) - 1

RECURSIVE BigShiftLeft(_, _)
BigShiftLeft(a, k) ==
    IF k <= ShiftChunk THEN BigMulSmall(a, 2 ^ k)
    ELSE BigShiftLeft(BigMulSmall(a, 2 ^ ShiftChunk), k - ShiftChunk)

\* <<floor(a / 2^k), whether a bit that was shifted out was set>>.
RECURSIVE BigShiftSticky(_, _, _)
BigShiftSticky(a, k, sticky) ==
    IF k <= ShiftChunk
    THEN LET qr == BigDivSmall(a, 2 ^ k) IN <<qr[1], sticky \/ qr[2] # 0>>
    ELSE LET qr == BigDivSmall(a, 2 ^ ShiftChunk)
         IN  BigShiftSticky(qr[1], k - ShiftChunk, sticky \/ qr[2] # 0)

BigShiftRight(a, k) == BigShiftSticky(a, k, FALSE)[1]

RECURSIVE BitLen(_)
BitLen(a) ==
    IF Len(a) <= 2 THEN NatBitLen(NatOfBig(a))
    ELSE ShiftChunk + BitLen(BigDivSmall(a, 2 ^ ShiftChunk)[1])

(***************************************************************************)
(* str -> int and int -> str (decimal).                                    *)
(***************************************************************************)
NonDigit == 10

IsDigitString(s) == Len(s) > 0 /\ \A i \in 1..Len(s) : s[i] \in 0..9

\* The p-th character of s counted from the right, 0 beyond its start.
DigitFromRight(s, p) == IF p <= Len(s) THEN s[Len(s) + 1 - p] ELSE 0

\* int(s) for a string of decimal digits: leading zeros are dropped.
IntOfStr(s) ==
    BigNorm([j \in 1..((Len(s) + LimbDigits - 1) \div LimbDigits) |->
                DigitFromRight(s, LimbDigits * (j - 1) + 1)
                + 10 * DigitFromRight(s, LimbDigits * (j - 1) + 2)
                + 100 * DigitFromRight(s, LimbDigits * (j - 1) + 3)
                + 1000 * DigitFromRight(s, LimbDigits * (j - 1) + 4)])

RECURSIVE NatDigits(_)
NatDigits(n) == IF n < 10 THEN 1 ELSE 1 + NatDigits(n \div 10)

\* str(n) for n >= 0: no leading zeros, "0" for zero.
StrOfInt(n) ==
    IF Len(n) = 0 THEN <<0>>
    ELSE LET total == LimbDigits * (Len(n) - 1) + NatDigits(n[Len(n)])
         IN  [i \in 1..total |->
                LET p == total - i
                IN  (n[(p \div LimbDigits) + 1] \div (10 ^ (p % LimbDigits))) % 10]

(***************************************************************************)
(* IEEE-754 binary64 (Python float), non-negative values.                  *)
(***************************************************************************)
DBL_MANT_DIG == 53

\* The binary64 nearest to (m + f) * 2^e, 0 <= f < 1, f # 0 iff inexact;
\* round half to even.
RoundToDouble(m, e, inexact) ==
    LET k == BitLen(m) - DBL_MANT_DIG
    IN  IF k <= 0 THEN [m |-> m, e |-> e]
        ELSE LET s   == BigShiftSticky(m, k - 1, inexact)
                 rnd == BigOdd(s[1])
                 q   == BigHalf(s[1])
                 up  == rnd /\ (s[2] \/ BigOdd(q))
             IN  [m |-> IF up THEN BigAdd(q, <<1>>) ELSE q, e |-> e + k]

\* float(n) for an int n >= 0, as in int * float.
FloatOfInt(n) == RoundToDouble(n, 0, FALSE)

\* The float denoted by the decimal literal num/den (den > 0, and
\* num/den = 0 or num/den >= 2^-DBL_MANT_DIG): the quotient is taken with
\* DBL_MANT_DIG guard bits and rounded once.
FloatOfDecimal(num, den) ==
    LET qr == BigDivSmall(BigShiftLeft(BigOfNat(num), 2 * DBL_MANT_DIG), den)
    IN  RoundToDouble(qr[1], 0 - 2 * DBL_MANT_DIG, qr[2] # 0)

\* a - b for floats a >= b >= 0.
FloatSub(a, b) ==
    LET lo == Min(a.e, b.e)
    IN  RoundToDouble(BigSub(BigShiftLeft(a.m, a.e - lo), BigShiftLeft(b.m, b.e - lo)), lo, FALSE)

FloatMul(a, b) == RoundToDouble(BigMul(a.m, b.m), a.e + b.e, FALSE)

\* int(f): truncation toward zero.
IntOfFloat(f) ==
    IF f.e >= 0 THEN BigShiftLeft(f.m, f.e) ELSE BigShiftRight(f.m, 0 - f.e)

(***************************************************************************)
(* Values of the client and of its collaborators.                          *)
(***************************************************************************)
None == "None"

\* self.account.address and self.private_key of the one client.
WalletAddress == "0xWallet"

PrivateKey == "0xKey"

\* The client __init__ leaves when given PrivateKey, used without async with.
ReadyClient ==
    [state |-> "ready", private_key |-> PrivateKey,
     account |-> [address |-> WalletAddress], w3 |-> "HTTPProvider",
     http_client |-> "open", scope |-> "none"]

\* Strings the code takes apart (keys) are sequences of characters; Absent
\* is Python's None where such a string is expected.
Absent == <<"None">>

\* bool(s) of an optional string.
Truthy(s) == s # Absent /\ Len(s) > 0

HexPrefix == <<"0", "x">>

\* s.startswith(prefix)
StartsWith(s, prefix) == Len(s) >= Len(prefix) /\ SubSeq(s, 1, Len(prefix)) = prefix

\* As NormalizeKey, had the prefix been put before every key.
NormalizeKeyAlways(key) == HexPrefix \o key

\* Lines 43-44.
NormalizeKey(key) == IF StartsWith(key, HexPrefix) THEN key ELSE HexPrefix \o key

\* Account.from_key(key).address: the key determines the address.
AddressOf(key) == [address_of |-> key]

\* No StargateClient object yet.
NoClient ==
    [state |-> "none", private_key |-> Absent, account |-> << >>, w3 |-> "none",
     http_client |-> "none", scope |-> "none"]

\* d.get(k, default)
Get(d, k, default) == IF k \in DOMAIN d THEN d[k] ELSE default

\* The limit set by _prepare_transaction and the default timeout of
\* wait_for_transaction.
DefaultGasLimit == 300000

DefaultTimeout == 300

\* The pause of execute_route, in seconds.
StepPause == 1

\* Account.sign_transaction: the raw bytes determine the transaction and
\* the key; the node's hash determines the raw bytes it was given.
SignTransaction(transaction, key) ==
    [rawTransaction |-> [tx |-> transaction, signer |-> key]]

TxHash(raw) == [keccak |-> raw]

\* HexBytes.hex()
Hex(h) == [hex |-> h]

(***************************************************************************)
(* State.  task[t] is one asynchronous call on the client: the operation   *)
(* it was started with (op), where it stands (pc) and the locals of the    *)
(* functions it is in.  chain is the node: the account's transaction count *)
(* and gas price, and the hashes it accepted and has not yet mined.        *)
(* client is the StargateClient object: its key, its account, its          *)
(* connections, and the async with statement it is used in, if any.        *)
(* events is the history of the calls made on the collaborators (the node, *)
(* the HTTP client, the event loop) and of the client's own methods.       *)
(***************************************************************************)
VARIABLES task, chain, client, events

vars == <<task, chain, client, events>>

IdleTask ==
    [op |-> "none", pc |-> "idle",
     quote_params |-> << >>, quotes_data |-> << >>,
     route_data |-> << >>, i |-> 0, tx_hashes |-> << >>,
     tx_data |-> << >>, nonce |-> 0, transaction |-> << >>,
     signed_txn |-> << >>, tx_hash |-> << >>, timeout |-> 0,
     receipt |-> << >>, result |-> << >>, error |-> None]

Event(t, op, ok, arg) ==
    [task |-> t, op |-> op, step |-> task[t].i, ok |-> ok, arg |-> arg]

\* As HasSteps, had the check been for the key alone.
HasStepsKey(route) == "steps" \in DOMAIN route

\* The places in the history of the task's calls of op.
EventsOf(t, op) == {k \in DOMAIN events : events[k].task = t /\ events[k].op = op}

\* route_data.get('steps') is truthy.
HasSteps(route) == "steps" \in DOMAIN route /\ Len(route["steps"]) > 0

\* quotes_data.get('quotes') is truthy.
HasQuotes(body) == "quotes" \in DOMAIN body /\ Len(body["quotes"]) > 0

\* tx_data.value and tx_data.value != '0'
ValueGiven(tx_data) == Len(tx_data.value) > 0 /\ tx_data.value # <<0>>

\* As PrepareTransaction, had the value been put in whatever it is.
PrepareTransactionAlwaysValue(tx_data, nonce, gas_price) ==
    [to |-> tx_data.to, data |-> tx_data.data, nonce |-> nonce,
     gas |-> DefaultGasLimit, gasPrice |-> gas_price,
     value |-> IntOfStr(tx_data.value)]

\* _prepare_transaction, given the gas price it read.
PrepareTransaction(tx_data, nonce, gas_price) ==
    LET transaction ==
            [to |-> tx_data.to, data |-> tx_data.data, nonce |-> nonce,
             gas |-> DefaultGasLimit, gasPrice |-> gas_price]
    IN  IF ValueGiven(tx_data)
        THEN transaction @@ [value |-> IntOfStr(tx_data.value)]
        ELSE transaction

\* As GasWithBuffer, had the product been rounded up.
GasWithBufferCeil(gas_estimate) == (6 * gas_estimate + 4) \div 5

\* int(gas_estimate * 1.2)
GasWithBuffer(gas_estimate) ==
    NatOfBig(IntOfFloat(FloatMul(FloatOfInt(BigOfNat(gas_estimate)), FloatOfDecimal(12, 10))))

\* str(int(int(amount) * (1 - slippage_tolerance))); the tolerance is the
\* float written num/den in decimal.
DstAmountMin(amount, slippage) ==
    StrOfInt(IntOfFloat(FloatMul(FloatOfInt(IntOfStr(amount)),
                                 FloatSub(FloatOfInt(BigOfNat(1)),
                                          FloatOfDecimal(slippage.num, slippage.den)))))

\* As DecodeStep, had a missing value been decoded to the empty string.
DecodeStepEmptyValue(step) ==
    LET tx_info == Get(step, "transaction", << >>)
    IN  [to    |-> Get(tx_info, "to", ""),
         data  |-> Get(tx_info, "data", ""),
         value |-> Get(tx_info, "value", << >>)]

\* The TransactionData execute_route builds from a step.
DecodeStep(step) ==
    LET tx_info == Get(step, "transaction", << >>)
    IN  [to    |-> Get(tx_info, "to", ""),
         data  |-> Get(tx_info, "data", ""),
         value |-> Get(tx_info, "value", <<0>>)]

\* The query parameters get_quotes sends.
QueryParams(params) ==
    [srcToken |-> params.src_token, dstToken |-> params.dst_token,
     srcAddress |-> params.src_address, dstAddress |-> params.dst_address,
     srcChainKey |-> params.src_chain_key, dstChainKey |-> params.dst_chain_key,
     srcAmount |-> params.src_amount, dstAmountMin |-> params.dst_amount_min]

\* x or self.account.address
OrWallet(address) ==
    IF address = None \/ address = "" THEN client.account.address ELSE address

\* As TransferParams, had the destination's default hung on the source's.
TransferParamsLinked(args) ==
    [src_token |-> args.src_token, dst_token |-> args.dst_token,
     src_address |-> OrWallet(args.src_address),
     dst_address |-> IF OrWallet(args.src_address) = args.src_address
                     THEN args.dst_address ELSE OrWallet(args.dst_address),
     src_chain_key |-> args.src_chain_key, dst_chain_key |-> args.dst_chain_key,
     src_amount |-> args.amount,
     dst_amount_min |-> DstAmountMin(args.amount, args.slippage_tolerance)]

\* The QuoteParams transfer builds from its arguments.
TransferParams(args) ==
    [src_token |-> args.src_token, dst_token |-> args.dst_token,
     src_address |-> OrWallet(args.src_address),
     dst_address |-> OrWallet(args.dst_address),
     src_chain_key |-> args.src_chain_key, dst_chain_key |-> args.dst_chain_key,
     src_amount |-> args.amount,
     dst_amount_min |-> DstAmountMin(args.amount, args.slippage_tolerance)]

(***************************************************************************)
(* Control flow shared by the operations.                                  *)
(***************************************************************************)
\* An exception leaves every frame of the task: no function of the client
\* catches what another raised, beyond the wrapping done where it is raised.
Raised(tk, kind) == [tk EXCEPT !.pc = "raised", !.error = kind]

\* return value, out of the task's outermost call.
Returned(tk, value) == [tk EXCEPT !.pc = "returned", !.result = value]

\* As AfterExecuteTransaction, had execute_route kept the hash and gone on
\* without awaiting wait_for_transaction.
AfterExecuteTransactionNoWait(tk, tx_hash) ==
    IF tk.op = "execute_transaction"
    THEN Returned(tk, tx_hash)
    ELSE [tk EXCEPT !.tx_hash = tx_hash, !.tx_hashes = Append(@, tx_hash),
                    !.pc = "route_sleep"]

\* execute_transaction returns tx_hash: to its caller in execute_route,
\* which goes on to call wait_for_transaction(tx_hash), or to the task's
\* caller.
AfterExecuteTransaction(tk, tx_hash) ==
    IF tk.op = "execute_transaction"
    THEN Returned(tk, tx_hash)
    ELSE [tk EXCEPT !.tx_hash = tx_hash, !.timeout = DefaultTimeout, !.pc = "wait_receipt"]

\* wait_for_transaction returns the receipt.
AfterWaitForTransaction(tk, receipt) ==
    IF tk.op = "wait_for_transaction"
    THEN Returned(tk, receipt)
    ELSE [tk EXCEPT !.receipt = receipt, !.pc = "route_confirm"]

\* As AfterGetQuotes, had a body without routes been refused.
AfterGetQuotesNonEmpty(tk, body) ==
    IF ~HasQuotes(body)
    THEN Raised(tk, "StargateAPIError")
    ELSE IF tk.op = "get_quotes"
         THEN Returned(tk, body)
         ELSE [tk EXCEPT !.quotes_data = body, !.pc = "transfer_select"]

\* get_quotes returns the parsed body.
AfterGetQuotes(tk, body) ==
    IF tk.op = "get_quotes"
    THEN Returned(tk, body)
    ELSE [tk EXCEPT !.quotes_data = body, !.pc = "transfer_select"]

(***************************************************************************)
(* The callers' entry points.                                              *)
(***************************************************************************)
\* await client.transfer(...): lines 251-271, up to the call of get_quotes.
CallTransfer(t, calls) ==
    /\ task[t].pc = "idle"
    /\ \E args \in calls :
          IF IsDigitString(args.amount)
          THEN /\ task' = [task EXCEPT ![t].op = "transfer",
                                       ![t].quote_params = TransferParams(args),
                                       ![t].pc = "quotes_request"]
               /\ events' = events \o <<Event(t, "transfer", TRUE, args),
                                        Event(t, "get_quotes", TRUE, TransferParams(args))>>
          ELSE /\ task' = [task EXCEPT ![t] = Raised([@ EXCEPT !.op = "transfer"], "ValueError")]
               /\ events' = Append(events, Event(t, "transfer", TRUE, args))
    /\ UNCHANGED <<chain, client>>

\* await client.execute_route(route_data)
CallExecuteRoute(t, routes) ==
    /\ task[t].pc = "idle"
    /\ \E route \in routes :
          /\ task' = [task EXCEPT ![t].op = "execute_route",
                                  ![t].route_data = route,
                                  ![t].pc = "route_check"]
          /\ events' = Append(events, Event(t, "execute_route", TRUE, route))
    /\ UNCHANGED <<chain, client>>

\* await client.execute_transaction(tx_data)
CallExecuteTransaction(t, descriptors) ==
    /\ task[t].pc = "idle"
    /\ \E tx_data \in descriptors :
          /\ task' = [task EXCEPT ![t].op = "execute_transaction",
                                  ![t].tx_data = tx_data,
                                  ![t].pc = "tx_nonce"]
          /\ events' = Append(events, Event(t, "execute_transaction", TRUE, tx_data))
    /\ UNCHANGED <<chain, client>>

\* As CallWaitForTransaction, had the caller's timeout been dropped.
CallWaitForTransactionFixedTimeout(t, calls) ==
    /\ task[t].pc = "idle"
    /\ \E args \in calls :
          /\ task' = [task EXCEPT ![t].op = "wait_for_transaction",
                                  ![t].tx_hash = args.tx_hash,
                                  ![t].timeout = DefaultTimeout,
                                  ![t].pc = "wait_receipt"]
          /\ events' = Append(events, Event(t, "wait_for_transaction", TRUE, args))
    /\ UNCHANGED <<chain, client>>

\* await client.wait_for_transaction(tx_hash) or
\* await client.wait_for_transaction(tx_hash, timeout=n): args holds the
\* arguments that were given.
CallWaitForTransaction(t, calls) ==
    /\ task[t].pc = "idle"
    /\ \E args \in calls :
          /\ task' = [task EXCEPT ![t].op = "wait_for_transaction",
                                  ![t].tx_hash = args.tx_hash,
                                  ![t].timeout = Get(args, "timeout", DefaultTimeout),
                                  ![t].pc = "wait_receipt"]
          /\ events' = Append(events, Event(t, "wait_for_transaction", TRUE, args))
    /\ UNCHANGED <<chain, client>>

\* await client.get_quotes(params)
CallGetQuotes(t, paramsets) ==
    /\ task[t].pc = "idle"
    /\ client.state = "ready"
    /\ \E params \in paramsets :
          /\ task' = [task EXCEPT ![t].op = "get_quotes",
                                  ![t].quote_params = params,
                                  ![t].pc = "quotes_request"]
          /\ events' = Append(events, Event(t, "get_quotes", TRUE, params))
    /\ UNCHANGED <<chain, client>>

(***************************************************************************)
(* get_supported_chains                                                    *)
(***************************************************************************)
\* await client.get_supported_chains(), by a caller that awaits its calls
\* one after the other.
CallGetSupportedChains(t) ==
    /\ task[t].pc = "idle"
    /\ client.state = "ready"
    /\ \A earlier \in DOMAIN task :
          earlier < t => task[earlier].pc \in {"returned", "raised"}
    /\ task' = [task EXCEPT ![t].op = "get_supported_chains", ![t].pc = "chains_request"]
    /\ events' = Append(events, Event(t, "get_supported_chains", TRUE, << >>))
    /\ UNCHANGED <<chain, client>>

\* Line 69: the GET is issued.
ChainsRequest(t) ==
    /\ task[t].pc = "chains_request"
    /\ task' = [task EXCEPT ![t].pc = "chains_response"]
    /\ events' = Append(events, Event(t, "http_get", TRUE, [path |-> "/chains"]))
    /\ UNCHANGED <<chain, client>>

\* As ChainsResponse, had a failed call left the client refusing the calls
\* after it.
ChainsResponseSticky(t, bodies) ==
    /\ task[t].pc = "chains_response"
    /\ \/ \E failure \in {"transport", "status"} :
             /\ task' = [task EXCEPT ![t] = Raised(@, "StargateAPIError")]
             /\ events' = Append(events, Event(t, "http_response", FALSE, failure))
       \/ /\ task' = [task EXCEPT ![t] = Raised(@, "JSONDecodeError")]
          /\ events' = Append(events, Event(t, "http_response", FALSE, "json"))
       \/ \E body \in bodies :
             /\ task' = [task EXCEPT ![t] =
                            IF \E u \in DOMAIN task : task[u].pc = "raised"
                            THEN Raised(@, "StargateAPIError")
                            ELSE Returned(@, body)]
             /\ events' = Append(events, Event(t, "http_response", TRUE, body))
    /\ UNCHANGED <<chain, client>>

\* Lines 69-73: the request fails in transport, or the response has an
\* error status, or a body that is no JSON, or the body is parsed and
\* returned.
ChainsResponse(t, bodies) ==
    /\ task[t].pc = "chains_response"
    /\ \/ \E failure \in {"transport", "status"} :
             /\ task' = [task EXCEPT ![t] = Raised(@, "StargateAPIError")]
             /\ events' = Append(events, Event(t, "http_response", FALSE, failure))
       \/ /\ task' = [task EXCEPT ![t] = Raised(@, "JSONDecodeError")]
          /\ events' = Append(events, Event(t, "http_response", FALSE, "json"))
       \/ \E body \in bodies :
             /\ task' = [task EXCEPT ![t] = Returned(@, body)]
             /\ events' = Append(events, Event(t, "http_response", TRUE, body))
    /\ UNCHANGED <<chain, client>>

(***************************************************************************)
(* get_quotes                                                              *)
(***************************************************************************)
\* Lines 85-100: the GET is issued.
QuotesRequest(t) ==
    /\ task[t].pc = "quotes_request"
    /\ task' = [task EXCEPT ![t].pc = "quotes_response"]
    /\ events' = Append(events, Event(t, "http_get", TRUE,
                        [path |-> "/quotes", params |-> QueryParams(task[t].quote_params)]))
    /\ UNCHANGED <<chain, client>>

\* As QuotesResponse, had raise_for_status stood outside the try.
QuotesResponseStatusUnwrapped(t, bodies) ==
    /\ task[t].pc = "quotes_response"
    /\ \/ /\ task' = [task EXCEPT ![t] = Raised(@, "StargateAPIError")]
          /\ events' = Append(events, Event(t, "http_response", FALSE, "transport"))
       \/ /\ task' = [task EXCEPT ![t] = Raised(@, "HTTPStatusError")]
          /\ events' = Append(events, Event(t, "http_response", FALSE, "status"))
       \/ /\ task' = [task EXCEPT ![t] = Raised(@, "JSONDecodeError")]
          /\ events' = Append(events, Event(t, "http_response", FALSE, "json"))
       \/ \E body \in bodies :
             /\ task' = [task EXCEPT ![t] = AfterGetQuotes(@, body)]
             /\ events' = Append(events, Event(t, "http_response", TRUE, body))
    /\ UNCHANGED <<chain, client>>

\* Lines 97-104: the request fails in transport, or the response has an
\* error status, or a body that is no JSON, or the body is parsed.
QuotesResponse(t, bodies) ==
    /\ task[t].pc = "quotes_response"
    /\ \/ \E failure \in {"transport", "status"} :
             /\ task' = [task EXCEPT ![t] = Raised(@, "StargateAPIError")]
             /\ events' = Append(events, Event(t, "http_response", FALSE, failure))
       \/ /\ task' = [task EXCEPT ![t] = Raised(@, "JSONDecodeError")]
          /\ events' = Append(events, Event(t, "http_response", FALSE, "json"))
       \/ \E body \in bodies :
             /\ task' = [task EXCEPT ![t] = AfterGetQuotes(@, body)]
             /\ events' = Append(events, Event(t, "http_response", TRUE, body))
    /\ UNCHANGED <<chain, client>>

(***************************************************************************)
(* transfer, after get_quotes                                              *)
(***************************************************************************)
\* As TransferSelect, had the check for an empty result been left out: the
\* first route is then taken from an empty list.
TransferSelectUnchecked(t) ==
    /\ task[t].pc = "transfer_select"
    /\ LET quotes_data == task[t].quotes_data
       IN  IF ~HasQuotes(quotes_data)
           THEN /\ task' = [task EXCEPT ![t] = Raised(@, IF "quotes" \in DOMAIN quotes_data
                                                         THEN "IndexError" ELSE "KeyError")]
                /\ UNCHANGED events
           ELSE LET selected_route == quotes_data["quotes"][1]
                IN  IF "steps" \notin DOMAIN selected_route
                    THEN /\ task' = [task EXCEPT ![t] = Raised(@, "KeyError")]
                         /\ UNCHANGED events
                    ELSE /\ task' = [task EXCEPT ![t].route_data = selected_route,
                                                 ![t].pc = "route_check"]
                         /\ events' = Append(events,
                                Event(t, "execute_route", TRUE, selected_route))
    /\ UNCHANGED <<chain, client>>

\* As TransferSelect, had the last route been selected.
TransferSelectLast(t) ==
    /\ task[t].pc = "transfer_select"
    /\ LET quotes_data == task[t].quotes_data
       IN  IF ~HasQuotes(quotes_data)
           THEN /\ task' = [task EXCEPT ![t] = Raised(@, "StargateAPIError")]
                /\ UNCHANGED events
           ELSE LET selected_route == quotes_data["quotes"][Len(quotes_data["quotes"])]
                IN  IF "steps" \notin DOMAIN selected_route
                    THEN /\ task' = [task EXCEPT ![t] = Raised(@, "KeyError")]
                         /\ UNCHANGED events
                    ELSE /\ task' = [task EXCEPT ![t].route_data = selected_route,
                                                 ![t].pc = "route_check"]
                         /\ events' = Append(events,
                                Event(t, "execute_route", TRUE, selected_route))
    /\ UNCHANGED <<chain, client>>

\* Lines 273-281.
TransferSelect(t) ==
    /\ task[t].pc = "transfer_select"
    /\ LET quotes_data == task[t].quotes_data
       IN  IF ~HasQuotes(quotes_data)
           THEN /\ task' = [task EXCEPT ![t] = Raised(@, "StargateAPIError")]
                /\ UNCHANGED events
           ELSE LET selected_route == quotes_data["quotes"][1]
                IN  IF "steps" \notin DOMAIN selected_route
                    THEN /\ task' = [task EXCEPT ![t] = Raised(@, "KeyError")]
                         /\ UNCHANGED events
                    ELSE /\ task' = [task EXCEPT ![t].route_data = selected_route,
                                                 ![t].pc = "route_check"]
                         /\ events' = Append(events,
                                Event(t, "execute_route", TRUE, selected_route))
    /\ UNCHANGED <<chain, client>>

(***************************************************************************)
(* execute_route                                                           *)
(***************************************************************************)
\* Lines 193-196.
RouteCheck(t) ==
    /\ task[t].pc = "route_check"
    /\ IF ~HasSteps(task[t].route_data)
       THEN task' = [task EXCEPT ![t] = Raised(@, "StargateTransactionError")]
       ELSE task' = [task EXCEPT ![t].tx_hashes = << >>, ![t].i = 0,
                                 ![t].pc = "route_loop"]
    /\ UNCHANGED <<chain, client, events>>

\* Lines 198-210: the loop takes its next step and calls
\* execute_transaction on the step's descriptor.
RouteNextStep(t) ==
    /\ task[t].pc = "route_loop"
    /\ task[t].i < Len(task[t].route_data["steps"])
    /\ LET tx_data == DecodeStep(task[t].route_data["steps"][task[t].i + 1])
       IN  /\ task' = [task EXCEPT ![t].tx_data = tx_data, ![t].pc = "tx_nonce"]
           /\ events' = Append(events, Event(t, "execute_transaction", TRUE, tx_data))
    /\ UNCHANGED <<chain, client>>

\* Line 222: the loop is over.
RouteReturn(t) ==
    /\ task[t].pc = "route_loop"
    /\ task[t].i = Len(task[t].route_data["steps"])
    /\ task' = [task EXCEPT ![t] = Returned(@, task[t].tx_hashes)]
    /\ UNCHANGED <<chain, client, events>>

\* As RouteConfirm, had a reverted transaction ended the route.
RouteConfirmAbortOnRevert(t) ==
    /\ task[t].pc = "route_confirm"
    /\ IF "status" \notin DOMAIN task[t].receipt
       THEN task' = [task EXCEPT ![t] = Raised(@, "KeyError")]
       ELSE IF task[t].receipt["status"] = 0
            THEN task' = [task EXCEPT ![t] = Raised(@, "StargateTransactionError")]
            ELSE task' = [task EXCEPT ![t].tx_hashes = Append(@, task[t].tx_hash),
                                      ![t].pc = "route_sleep"]
    /\ UNCHANGED <<chain, client, events>>

\* As RouteConfirm, had it kept the hashes of succeeded transactions only.
RouteConfirmSucceededOnly(t) ==
    /\ task[t].pc = "route_confirm"
    /\ IF "status" \notin DOMAIN task[t].receipt
       THEN task' = [task EXCEPT ![t] = Raised(@, "KeyError")]
       ELSE IF task[t].receipt["status"] = 1
            THEN task' = [task EXCEPT ![t].tx_hashes = Append(@, task[t].tx_hash),
                                      ![t].pc = "route_sleep"]
            ELSE task' = [task EXCEPT ![t].pc = "route_sleep"]
    /\ UNCHANGED <<chain, client, events>>

\* Lines 215-217: the receipt's status is printed, the hash is kept.
RouteConfirm(t) ==
    /\ task[t].pc = "route_confirm"
    /\ IF "status" \notin DOMAIN task[t].receipt
       THEN task' = [task EXCEPT ![t] = Raised(@, "KeyError")]
       ELSE task' = [task EXCEPT ![t].tx_hashes = Append(@, task[t].tx_hash),
                                 ![t].pc = "route_sleep"]
    /\ UNCHANGED <<chain, client, events>>

\* Line 220, and the loop's step to its next index.
RouteSleep(t) ==
    /\ task[t].pc = "route_sleep"
    /\ task' = [task EXCEPT ![t].i = @ + 1, ![t].pc = "route_loop"]
    /\ events' = Append(events, Event(t, "sleep", TRUE, StepPause))
    /\ UNCHANGED <<chain, client>>

(***************************************************************************)
(* execute_transaction.  Whatever is raised inside it (lines 141-161),     *)
(* but for the estimation, is raised again as StargateTransactionError     *)
(* (lines 163-164).                                                        *)
(***************************************************************************)
\* As TxGetNonce, had execute_route's later steps used the nonce its first
\* step read.
TxGetNonceCached(t) ==
    /\ task[t].pc = "tx_nonce"
    /\ IF task[t].i > 0
       THEN /\ task' = [task EXCEPT ![t].pc = "tx_prepare"]
            /\ UNCHANGED events
       ELSE \/ /\ task' = [task EXCEPT ![t].nonce = chain.count, ![t].pc = "tx_prepare"]
               /\ events' = Append(events,
                      Event(t, "get_transaction_count", TRUE, chain.count))
            \/ /\ task' = [task EXCEPT ![t] = Raised(@, "StargateTransactionError")]
               /\ events' = Append(events, Event(t, "get_transaction_count", FALSE, << >>))
    /\ UNCHANGED <<chain, client>>

\* As TxGetNonce, had a failed read been tried again.
TxGetNonceRetry(t) ==
    /\ task[t].pc = "tx_nonce"
    /\ \/ /\ task' = [task EXCEPT ![t].nonce = chain.count, ![t].pc = "tx_prepare"]
          /\ events' = Append(events, Event(t, "get_transaction_count", TRUE, chain.count))
       \/ /\ Cardinality(EventsOf(t, "get_transaction_count")) < 2
          /\ UNCHANGED task
          /\ events' = Append(events, Event(t, "get_transaction_count", FALSE, << >>))
    /\ UNCHANGED <<chain, client>>

\* Line 143.
TxGetNonce(t) ==
    /\ task[t].pc = "tx_nonce"
    /\ \/ /\ task' = [task EXCEPT ![t].nonce = chain.count, ![t].pc = "tx_prepare"]
          /\ events' = Append(events, Event(t, "get_transaction_count", TRUE, chain.count))
       \/ /\ task' = [task EXCEPT ![t] = Raised(@, "StargateTransactionError")]
          /\ events' = Append(events, Event(t, "get_transaction_count", FALSE, << >>))
    /\ UNCHANGED <<chain, client>>

\* As TxPrepare, had _prepare_transaction been called outside the try.
TxPrepareUnwrapped(t) ==
    /\ task[t].pc = "tx_prepare"
    /\ \/ /\ events' = Append(events, Event(t, "gas_price", TRUE, chain.gas_price))
          /\ IF ValueGiven(task[t].tx_data) /\ ~IsDigitString(task[t].tx_data.value)
             THEN task' = [task EXCEPT ![t] = Raised(@, "ValueError")]
             ELSE task' = [task EXCEPT
                              ![t].transaction =
                                  PrepareTransaction(task[t].tx_data, task[t].nonce,
                                                     chain.gas_price),
                              ![t].pc = "tx_estimate"]
       \/ /\ task' = [task EXCEPT ![t] = Raised(@, "ConnectionError")]
          /\ events' = Append(events, Event(t, "gas_price", FALSE, << >>))
    /\ UNCHANGED <<chain, client>>

\* Line 146 (lines 117-129): the gas price is read from the node, then the
\* value is converted.
TxPrepare(t) ==
    /\ task[t].pc = "tx_prepare"
    /\ \/ /\ events' = Append(events, Event(t, "gas_price", TRUE, chain.gas_price))
          /\ IF ValueGiven(task[t].tx_data) /\ ~IsDigitString(task[t].tx_data.value)
             THEN task' = [task EXCEPT ![t] = Raised(@, "StargateTransactionError")]
             ELSE task' = [task EXCEPT
                              ![t].transaction =
                                  PrepareTransaction(task[t].tx_data, task[t].nonce,
                                                     chain.gas_price),
                              ![t].pc = "tx_estimate"]
       \/ /\ task' = [task EXCEPT ![t] = Raised(@, "StargateTransactionError")]
          /\ events' = Append(events, Event(t, "gas_price", FALSE, << >>))
    /\ UNCHANGED <<chain, client>>

\* As TxEstimateGas, had the estimation stood under the outer handler alone.
TxEstimateGasStrict(t, estimates) ==
    /\ task[t].pc = "tx_estimate"
    /\ \/ \E gas_estimate \in estimates :
             /\ task' = [task EXCEPT ![t].transaction["gas"] = GasWithBuffer(gas_estimate),
                                     ![t].pc = "tx_sign"]
             /\ events' = Append(events, Event(t, "estimate_gas", TRUE, gas_estimate))
       \/ /\ task' = [task EXCEPT ![t] = Raised(@, "StargateTransactionError")]
          /\ events' = Append(events, Event(t, "estimate_gas", FALSE, << >>))
    /\ UNCHANGED <<chain, client>>

\* Lines 149-153: the estimate, with its margin, replaces the default
\* limit; a failed estimation is printed and nothing else.
TxEstimateGas(t, estimates) ==
    /\ task[t].pc = "tx_estimate"
    /\ \/ \E gas_estimate \in estimates :
             /\ task' = [task EXCEPT ![t].transaction["gas"] = GasWithBuffer(gas_estimate),
                                     ![t].pc = "tx_sign"]
             /\ events' = Append(events, Event(t, "estimate_gas", TRUE, gas_estimate))
       \/ /\ task' = [task EXCEPT ![t].pc = "tx_sign"]
          /\ events' = Append(events, Event(t, "estimate_gas", FALSE, << >>))
    /\ UNCHANGED <<chain, client>>

\* Line 156.
TxSign(t) ==
    /\ task[t].pc = "tx_sign"
    /\ \/ /\ task' = [task EXCEPT
                         ![t].signed_txn = SignTransaction(task[t].transaction, client.private_key),
                         ![t].pc = "tx_send"]
          /\ events' = Append(events, Event(t, "sign_transaction", TRUE, task[t].transaction))
       \/ /\ task' = [task EXCEPT ![t] = Raised(@, "StargateTransactionError")]
          /\ events' = Append(events, Event(t, "sign_transaction", FALSE, task[t].transaction))
    /\ UNCHANGED <<chain, client>>

\* As TxSend, had the bytes sent been signed anew from the transaction as
\* prepared, before the estimate.
TxSendAsPrepared(t) ==
    /\ task[t].pc = "tx_send"
    /\ LET raw == SignTransaction([task[t].transaction EXCEPT !["gas"] = DefaultGasLimit],
                                  client.private_key).rawTransaction
       IN  \/ /\ task' = [task EXCEPT ![t] = AfterExecuteTransaction(@, Hex(TxHash(raw)))]
              /\ chain' = [chain EXCEPT !.pending = @ \cup {Hex(TxHash(raw))}]
              /\ events' =
                    IF task[t].op = "execute_transaction"
                    THEN Append(events, Event(t, "send_raw_transaction", TRUE, raw))
                    ELSE events \o <<Event(t, "send_raw_transaction", TRUE, raw),
                                     Event(t, "wait_for_transaction", TRUE,
                                           Hex(TxHash(raw)))>>
           \/ /\ task' = [task EXCEPT ![t] = Raised(@, "StargateTransactionError")]
              /\ events' = Append(events, Event(t, "send_raw_transaction", FALSE, raw))
              /\ UNCHANGED chain
    /\ UNCHANGED client

\* Lines 159-161: the node accepts the raw transaction and answers with its
\* hash, or the call fails.  In execute_route the hash goes straight to
\* wait_for_transaction (line 214).
TxSend(t) ==
    /\ task[t].pc = "tx_send"
    /\ LET raw == task[t].signed_txn.rawTransaction
       IN  \/ /\ task' = [task EXCEPT ![t] = AfterExecuteTransaction(@, Hex(TxHash(raw)))]
              /\ chain' = [chain EXCEPT !.pending = @ \cup {Hex(TxHash(raw))}]
              /\ events' =
                    IF task[t].op = "execute_transaction"
                    THEN Append(events, Event(t, "send_raw_transaction", TRUE, raw))
                    ELSE events \o <<Event(t, "send_raw_transaction", TRUE, raw),
                                     Event(t, "wait_for_transaction", TRUE,
                                           Hex(TxHash(raw)))>>
           \/ /\ task' = [task EXCEPT ![t] = Raised(@, "StargateTransactionError")]
              /\ events' = Append(events, Event(t, "send_raw_transaction", FALSE, raw))
              /\ UNCHANGED chain
    /\ UNCHANGED client

(***************************************************************************)
(* wait_for_transaction                                                    *)
(***************************************************************************)
\* Lines 177-181: the node mines the transaction and the receipt comes
\* back, or the poll fails or times out.  A mined transaction of the
\* account, reverted or not, raises the account's transaction count.
WaitReceipt(t, receipts) ==
    /\ task[t].pc = "wait_receipt"
    /\ LET query == [tx_hash |-> task[t].tx_hash, timeout |-> task[t].timeout]
       IN  \/ \E receipt \in receipts :
                 /\ task' = [task EXCEPT ![t] = AfterWaitForTransaction(@, receipt)]
                 /\ chain' = IF task[t].tx_hash \in chain.pending
                             THEN [chain EXCEPT !.pending = @ \ {task[t].tx_hash},
                                                !.count = @ + 1]
                             ELSE chain
                 /\ events' = Append(events,
                        Event(t, "wait_for_transaction_receipt", TRUE,
                              [query |-> query, receipt |-> receipt]))
           \/ /\ task' = [task EXCEPT ![t] = Raised(@, "StargateTransactionError")]
              /\ events' = Append(events,
                    Event(t, "wait_for_transaction_receipt", FALSE, [query |-> query]))
              /\ UNCHANGED chain
    /\ UNCHANGED client

(***************************************************************************)
(* Construction and scoped use of the client.                              *)
(***************************************************************************)
\* StargateClient(private_key) with EVM_PRIVATE_KEY holding env, or not set
\* (lines 35-51).  The key library accepts the key or raises.
Construct(t, keys, envs) ==
    /\ task[t].pc = "idle"
    /\ client.state = "none"
    /\ \E private_key \in keys, env \in envs :
          LET key  == IF Truthy(private_key) THEN private_key ELSE env
              call == Event(t, "__init__", TRUE, [private_key |-> private_key, env |-> env])
          IN  IF ~Truthy(key)
              THEN /\ task' = [task EXCEPT ![t] = Raised([@ EXCEPT !.op = "__init__"],
                                                         "ValueError")]
                   /\ client' = [client EXCEPT !.state = "failed"]
                   /\ events' = Append(events, call)
              ELSE \/ /\ UNCHANGED task
                      /\ client' = [state |-> "ready", private_key |-> NormalizeKey(key),
                                    account |-> [address |-> AddressOf(NormalizeKey(key))],
                                    w3 |-> "HTTPProvider", http_client |-> "open",
                                    scope |-> "none"]
                      /\ events' = events \o
                            <<call, Event(t, "HTTPProvider", TRUE, << >>),
                              Event(t, "from_key", TRUE, NormalizeKey(key)),
                              Event(t, "AsyncClient", TRUE, << >>)>>
                   \/ /\ task' = [task EXCEPT ![t] = Raised([@ EXCEPT !.op = "__init__"],
                                                            "InvalidKey")]
                      /\ client' = [client EXCEPT !.state = "failed"]
                      /\ events' = events \o
                            <<call, Event(t, "HTTPProvider", TRUE, << >>),
                              Event(t, "from_key", FALSE, NormalizeKey(key))>>
    /\ UNCHANGED chain

\* async with client: __aenter__ (lines 53-55).
Enter(t) ==
    /\ task[t].pc = "idle"
    /\ client.state = "ready"
    /\ client.scope = "none"
    /\ client' = [client EXCEPT !.scope = "entered"]
    /\ events' = Append(events, Event(t, "__aenter__", TRUE, << >>))
    /\ UNCHANGED <<task, chain>>

\* The body of the async with raises something of its own.
BodyRaises(t) ==
    /\ task[t].pc = "idle"
    /\ client.scope = "entered"
    /\ task' = [task EXCEPT ![t] = Raised([@ EXCEPT !.op = "body"], "BodyError")]
    /\ UNCHANGED <<chain, client, events>>

\* As Exit, had the connection been closed only after a body that did not
\* raise.
ExitOnSuccessOnly(t) ==
    /\ client.scope = "entered"
    /\ task[t].pc \in {"idle", "returned", "raised"}
    /\ LET exc_type == IF task[t].pc = "raised" THEN task[t].error ELSE None
       IN  /\ events' = IF exc_type = None
                        THEN events \o <<Event(t, "__aexit__", TRUE, exc_type),
                                         Event(t, "aclose", TRUE, << >>)>>
                        ELSE Append(events, Event(t, "__aexit__", TRUE, exc_type))
           /\ client' = [client EXCEPT !.scope = "exited",
                                       !.http_client = IF exc_type = None
                                                       THEN "closed" ELSE @]
    /\ task' = [task EXCEPT ![t] = IF @.pc = "idle"
                                   THEN Returned([@ EXCEPT !.op = "body"], None)
                                   ELSE @]
    /\ UNCHANGED chain

\* The body of the async with is over, by its end or by an exception:
\* __aexit__ (lines 57-59) closes the HTTP client and returns None, so that
\* an exception goes on to the caller.
Exit(t) ==
    /\ client.scope = "entered"
    /\ task[t].pc \in {"idle", "returned", "raised"}
    /\ LET exc_type == IF task[t].pc = "raised" THEN task[t].error ELSE None
       IN  events' = events \o <<Event(t, "__aexit__", TRUE, exc_type),
                                 Event(t, "aclose", TRUE, << >>)>>
    /\ client' = [client EXCEPT !.scope = "exited", !.http_client = "closed"]
    /\ task' = [task EXCEPT ![t] = IF @.pc = "idle"
                                   THEN Returned([@ EXCEPT !.op = "body"], None)
                                   ELSE @]
    /\ UNCHANGED chain

(***************************************************************************)
(* Bounds and the inputs drawn within them.                                *)
(***************************************************************************)
\* The longest route.
MaxSteps == 2

\* The account's transaction count when the client starts: 0..MaxInitialCount.
MaxInitialCount == 1

\* The node's gas price, in wei.
NodeGasPrice == 20

\* The estimates the node gives in a route: 1..MaxEstimate alone in
\* SpecGas, RouteEstimate in Spec.
MaxEstimate == 40

RouteEstimate == 21000

SeqsUpTo(S, n) == UNION {[1..k -> S] : k \in 0..n}

\* Steps as the quote API gives them, and as it might: a transaction with
\* value "0", one with a value, one lacking data and value, none at all.
StepInputs ==
    { [transaction |-> [to |-> "0xRouter", data |-> "0xswap", value |-> <<0>>]],
      [transaction |-> [to |-> "0xRouter", data |-> "0xsend", value |-> <<5>>]],
      [transaction |-> [to |-> "0xToken"]],
      << >> }

RouteInputs ==
    {<< >>} \cup {[steps |-> steps] : steps \in SeqsUpTo(StepInputs, MaxSteps)}

\* TransactionData values: value "0", "", "00", "5", "1000000000000000000",
\* and one that is no number.
DescriptorInputs ==
    {[to |-> "0xRouter", data |-> "0xswap", value |-> v] :
        v \in {<<0>>, << >>, <<0, 0>>, <<5>>,
               <<1, 0, 0, 0, 0, 0, 0, 0, 0, 0, 0, 0, 0, 0, 0, 0, 0, 0, 0>>,
               <<NonDigit>>}}

\* Receipts: succeeded, reverted, and one without a status.
ReceiptInputs ==
    { [status |-> 1, blockNumber |-> 1], [status |-> 0, blockNumber |-> 1],
      [blockNumber |-> 1] }

\* Calls of wait_for_transaction: two identifiers, the timeout left out,
\* 60 or 0.
WaitInputs ==
    {[tx_hash |-> h] : h \in {"0xabcdef1234567890", "0x01"}}
        \cup {[tx_hash |-> h, timeout |-> n] :
                 h \in {"0xabcdef1234567890", "0x01"}, n \in {60, 0}}

\* QuoteParams values: eight fields that all differ, and one whose
\* addresses are the same.
QuoteParamInputs ==
    { [src_token |-> "0xSrcToken", dst_token |-> "0xDstToken",
       src_address |-> "0xSender", dst_address |-> "0xReceiver",
       src_chain_key |-> "ethereum", dst_chain_key |-> "polygon",
       src_amount |-> <<1, 0, 0, 0, 0, 0, 0>>, dst_amount_min |-> <<9, 5, 0, 0, 0, 0>>],
      [src_token |-> "0xSrcToken", dst_token |-> "0xDstToken",
       src_address |-> "0xSender", dst_address |-> "0xSender",
       src_chain_key |-> "ethereum", dst_chain_key |-> "arbitrum",
       src_amount |-> <<5>>, dst_amount_min |-> <<5>>] }

\* transfer's arguments: amount "1000000" or "10", tolerance 0.05 or 0.9,
\* each address given or not, the source's also as "".
TransferInputs ==
    {[src_token |-> "USDC", dst_token |-> "USDC.e", src_chain_key |-> "ethereum",
      dst_chain_key |-> "polygon", amount |-> amount, src_address |-> src,
      dst_address |-> dst, slippage_tolerance |-> slippage] :
        amount \in {<<1, 0, 0, 0, 0, 0, 0>>, <<1, 0>>},
        src \in {None, "", "0xSender"}, dst \in {None, "0xReceiver"},
        slippage \in {[num |-> 5, den |-> 100], [num |-> 9, den |-> 10]}}

\* Routes a quote may hold, and the bodies of the quote response: no
\* "quotes", none, one route, or a first route followed by another.
QuotedRoutes ==
    {<< >>} \cup {[steps |-> steps] :
                    steps \in SeqsUpTo({[transaction |->
                        [to |-> "0xRouter", data |-> "0xswap", value |-> <<0>>]]},
                                       MaxSteps)}

OtherRoute ==
    [steps |-> <<[transaction |-> [to |-> "0xOther", data |-> "0xother", value |-> <<7>>]]>>]

QuoteBodies ==
    {<< >>, [quotes |-> << >>]}
        \cup {[quotes |-> <<route>>] : route \in QuotedRoutes}
        \cup {[quotes |-> <<route, OtherRoute>>] : route \in QuotedRoutes}

(***************************************************************************)
(* Spec: one task on the client, started as transfer, execute_route or     *)
(* execute_transaction.                                                    *)
(***************************************************************************)
\* The tasks of Spec.
Tasks == {1}

Init ==
    /\ task = [t \in Tasks |-> IdleTask]
    /\ chain \in [count : 0..MaxInitialCount, gas_price : {NodeGasPrice}, pending : {{}}]
    /\ client = ReadyClient
    /\ events = << >>

Next ==
    \E t \in Tasks :
        \/ CallTransfer(t, TransferInputs)
        \/ CallExecuteRoute(t, RouteInputs)
        \/ CallExecuteTransaction(t, DescriptorInputs)
        \/ CallWaitForTransaction(t, WaitInputs)
        \/ CallGetQuotes(t, QuoteParamInputs)
        \/ QuotesRequest(t)
        \/ QuotesResponse(t, QuoteBodies)
        \/ TransferSelect(t)
        \/ RouteCheck(t)
        \/ RouteNextStep(t)
        \/ RouteReturn(t)
        \/ RouteConfirm(t)
        \/ RouteSleep(t)
        \/ TxGetNonce(t)
        \/ TxPrepare(t)
        \/ TxEstimateGas(t, {RouteEstimate})
        \/ TxSign(t)
        \/ TxSend(t)
        \/ WaitReceipt(t, ReceiptInputs)

Spec == Init /\ [][Next]_vars

(***************************************************************************)
(* SpecQuote: transfer up to its quote request, over amounts up to and     *)
(* beyond 2^53 and tolerances from 0 to 1.                                 *)
(***************************************************************************)
\* "0", "1", "10", "90", "1000000", 2^53 + 1, 10^18 + 1, 1234567890123456789.
AmountInputs ==
    { <<0>>, <<1>>, <<1, 0>>, <<9, 0>>, <<1, 0, 0, 0, 0, 0, 0>>,
      <<9, 0, 0, 7, 1, 9, 9, 2, 5, 4, 7, 4, 0, 9, 9, 3>>,
      <<1, 0, 0, 0, 0, 0, 0, 0, 0, 0, 0, 0, 0, 0, 0, 0, 0, 0, 1>>,
      <<1, 2, 3, 4, 5, 6, 7, 8, 9, 0, 1, 2, 3, 4, 5, 6, 7, 8, 9>> }

\* 0.0, 0.005, 0.05, 0.3, 0.5, 0.9, 1.0
SlippageInputs ==
    { [num |-> 0, den |-> 1], [num |-> 5, den |-> 1000], [num |-> 5, den |-> 100],
      [num |-> 3, den |-> 10], [num |-> 1, den |-> 2], [num |-> 9, den |-> 10],
      [num |-> 1, den |-> 1] }

QuoteTransferInputs ==
    {[src_token |-> "USDC", dst_token |-> "USDC.e", src_chain_key |-> "ethereum",
      dst_chain_key |-> "polygon", amount |-> amount, src_address |-> None,
      dst_address |-> None, slippage_tolerance |-> slippage] :
        amount \in AmountInputs, slippage \in SlippageInputs}

NextQuote ==
    \E t \in Tasks :
        \/ CallTransfer(t, QuoteTransferInputs)
        \/ QuotesRequest(t)

SpecQuote == Init /\ [][NextQuote]_vars

(***************************************************************************)
(* SpecGas: execute_transaction alone, over the estimates 1..MaxEstimate   *)
(* and two of the size a node gives.                                       *)
(***************************************************************************)
EstimateInputs == (1..MaxEstimate) \cup {RouteEstimate, 150000}

\* The one descriptor executed in SpecGas.
GasDescriptors == {[to |-> "0xRouter", data |-> "0xswap", value |-> <<0>>]}

NextGas ==
    \E t \in Tasks :
        \/ CallExecuteTransaction(t, GasDescriptors)
        \/ TxGetNonce(t)
        \/ TxPrepare(t)
        \/ TxEstimateGas(t, EstimateInputs)
        \/ TxSign(t)
        \/ TxSend(t)

SpecGas == Init /\ [][NextGas]_vars

(***************************************************************************)
(* SpecClient: the client is constructed, from an explicit key or from the *)
(* environment, and used in an async with whose body calls get_quotes,     *)
(* raises, or does nothing; or it is used without one.                     *)
(***************************************************************************)
\* private_key: None, "", "0xab", "ab", "0x", "0", "x0", "0Xa", "0x0xa".
KeyInputs ==
    { Absent, << >>, <<"0", "x", "a", "b">>, <<"a", "b">>, <<"0", "x">>, <<"0">>,
      <<"x", "0">>, <<"0", "X", "a">>, <<"0", "x", "0", "x", "a">> }

\* EVM_PRIVATE_KEY: not set, "", "0xe", "e".
EnvInputs == { Absent, << >>, <<"0", "x", "e">>, <<"e">> }

InitClient ==
    /\ task = [t \in Tasks |-> IdleTask]
    /\ chain = [count |-> 0, gas_price |-> NodeGasPrice, pending |-> {}]
    /\ client = NoClient
    /\ events = << >>

\* The body of the quote response in SpecClient: no route.
EmptyQuoteBodies == {[quotes |-> << >>]}

NextClient ==
    \E t \in Tasks :
        \/ Construct(t, KeyInputs, EnvInputs)
        \/ Enter(t)
        \/ BodyRaises(t)
        \/ Exit(t)
        \/ CallGetQuotes(t, QuoteParamInputs)
        \/ QuotesRequest(t)
        \/ QuotesResponse(t, EmptyQuoteBodies)

SpecClient == InitClient /\ [][NextClient]_vars

(***************************************************************************)
(* SpecChains: get_supported_chains called MaxCalls times on one client,   *)
(* one call after the other, each answered or failed by the service.       *)
(***************************************************************************)
\* The calls made in a row.
MaxCalls == 3

ChainCalls == 1..MaxCalls

\* Bodies of the chains response.
ChainBodies ==
    { [chains |-> << >>],
      [ethereum |-> [chainId |-> 1], polygon |-> [chainId |-> 137]] }

InitChains ==
    /\ task = [t \in ChainCalls |-> IdleTask]
    /\ chain = [count |-> 0, gas_price |-> NodeGasPrice, pending |-> {}]
    /\ client = ReadyClient
    /\ events = << >>

NextChains ==
    \E t \in ChainCalls :
        \/ CallGetSupportedChains(t)
        \/ ChainsRequest(t)
        \/ ChainsResponse(t, ChainBodies)

SpecChains == InitChains /\ [][NextChains]_vars

(***************************************************************************)
(* SpecConcurrent: two execute_route calls run as tasks of one event loop  *)
(* on one client.  A task keeps the loop from the moment it is resumed     *)
(* until it awaits asyncio.sleep (line 220) or ends: the node calls of     *)
(* execute_transaction and wait_for_transaction (lines 143-161, 178) are   *)
(* synchronous web3 calls and the awaits of lines 210 and 214 enter        *)
(* coroutines that never suspend.                                          *)
(***************************************************************************)
\* The concurrent tasks.
RouteTasks == {1, 2}

\* Where a task does not hold the event loop: not yet started, suspended in
\* the pause, or over.
Suspended == {"idle", "route_sleep", "returned", "raised"}

\* As HoldsLoop, had every statement of the coroutines been a suspension
\* point.
HoldsLoopAlways(t) == TRUE

\* The event loop runs task t: no other task is between two suspension
\* points.
HoldsLoop(t) == \A u \in DOMAIN task \ {t} : task[u].pc \in Suspended

\* Routes of up to MaxSteps steps of one shape.
ConcurrentRoutes ==
    {[steps |-> steps] :
        steps \in SeqsUpTo({[transaction |->
            [to |-> "0xRouter", data |-> "0xswap", value |-> <<0>>]]}, MaxSteps)}

\* The receipt of a transaction that succeeded.
ConcurrentReceipts == { [status |-> 1, blockNumber |-> 1] }

InitConcurrent ==
    /\ task = [t \in RouteTasks |-> IdleTask]
    /\ chain = [count |-> MaxInitialCount, gas_price |-> NodeGasPrice, pending |-> {}]
    /\ client = ReadyClient
    /\ events = << >>

NextConcurrent ==
    \E t \in RouteTasks :
        \/ HoldsLoop(t) /\ CallExecuteRoute(t, ConcurrentRoutes)
        \/ HoldsLoop(t) /\ RouteCheck(t)
        \/ HoldsLoop(t) /\ RouteNextStep(t)
        \/ HoldsLoop(t) /\ RouteReturn(t)
        \/ HoldsLoop(t) /\ RouteConfirm(t)
        \/ HoldsLoop(t) /\ RouteSleep(t)
        \/ HoldsLoop(t) /\ TxGetNonce(t)
        \/ HoldsLoop(t) /\ TxPrepare(t)
        \/ HoldsLoop(t) /\ TxEstimateGas(t, {RouteEstimate})
        \/ HoldsLoop(t) /\ TxSign(t)
        \/ HoldsLoop(t) /\ TxSend(t)
        \/ HoldsLoop(t) /\ WaitReceipt(t, ConcurrentReceipts)

SpecConcurrent == InitConcurrent /\ [][NextConcurrent]_vars

(***************************************************************************)
(* utils.py: format_token_amount and parse_token_amount.  A string is the  *)
(* sequence of its characters, a digit being its value; a Decimal is its   *)
(* coefficient, as the string of its digits, and its exponent.  Amounts    *)
(* are not negative.                                                       *)
(***************************************************************************)
\* The characters ".", "E", "+" and "-".
Dot == 11

ExpMark == 12

PlusSign == 13

MinusSign == 14

\* decimal's default context: 28 significant digits, ROUND_HALF_EVEN.
DecimalPrec == 28

Zeros(n) == [i \in 1..n |-> 0]

\* int(s) for a short string of digits, as a number.
RECURSIVE SmallNat(_)
SmallNat(s) ==
    IF Len(s) = 0 THEN 0 ELSE 10 * SmallNat(SubSeq(s, 1, Len(s) - 1)) + s[Len(s)]

\* str(n) for a small n >= 0.
RECURSIVE SmallNatDigits(_)
SmallNatDigits(n) ==
    IF n < 10 THEN <<n>> ELSE Append(SmallNatDigits(n \div 10), n % 10)

\* divmod(int(c), int(b)) for strings of digits, b being "1" followed by
\* zeros as the digits of 10 ** decimals are: the digits of c but its last
\* Len(b) - 1, and those.
DivModPow10(c, b) ==
    LET k == Min(Len(b) - 1, Len(c))
    IN  [q |-> IntOfStr(SubSeq(c, 1, Len(c) - k)),
         rem |-> IntOfStr(SubSeq(c, Len(c) - k + 1, Len(c)))]

\* 10 ** n
BigPow10(n) == IntOfStr(<<1>> \o Zeros(n))

\* What Decimal(s) raises decimal.InvalidOperation for.
InvalidDecimal == [digits |-> << >>, exp |-> 0]

\* Decimal(s): digits with at most one point among them, then possibly an
\* exponent, signed or not.  The coefficient keeps every digit given but
\* leading zeros; the digits after the point lower the exponent.
DecimalOfStr(s) ==
    LET AllDigits(x) == \A i \in 1..Len(x) : x[i] \in 0..9
        marks == {i \in 1..Len(s) : s[i] = ExpMark}
        e == IF marks = {} THEN Len(s) + 1
             ELSE CHOOSE i \in marks : \A j \in marks : i <= j
        mantissa == SubSeq(s, 1, e - 1)
        tail == SubSeq(s, e + 1, Len(s))
        signed == Len(tail) > 0 /\ tail[1] \in {PlusSign, MinusSign}
        expdigits == IF signed THEN Tail(tail) ELSE tail
        dots == {i \in 1..Len(mantissa) : mantissa[i] = Dot}
        d == IF dots = {} THEN Len(mantissa) + 1
             ELSE CHOOSE i \in dots : \A j \in dots : i <= j
        intpart == SubSeq(mantissa, 1, d - 1)
        fracpart == SubSeq(mantissa, d + 1, Len(mantissa))
    IN  IF /\ AllDigits(intpart)
           /\ AllDigits(fracpart)
           /\ Len(intpart) + Len(fracpart) > 0
           /\ marks # {} => Len(expdigits) > 0 /\ AllDigits(expdigits)
        THEN [digits |-> StrOfInt(IntOfStr(intpart \o fracpart)),
              exp |-> (IF marks = {} THEN 0
                       ELSE IF tail[1] = MinusSign THEN 0 - SmallNat(expdigits)
                       ELSE SmallNat(expdigits)) - Len(fracpart)]
        ELSE InvalidDecimal

\* The Decimal an int operand of an arithmetic operation is converted to:
\* every digit of it, exponent 0.
DecimalOfInt(n) == [digits |-> StrOfInt(n), exp |-> 0]

\* The first n digits of c, rounded half-even on the digits dropped.
RoundHalfEven(c, n) ==
    LET kept == SubSeq(c, 1, n)
        dropped == SubSeq(c, n + 1, Len(c))
        tie == dropped[1] = 5 /\ \A i \in 2..Len(dropped) : dropped[i] = 0
        up == IF tie THEN kept[n] % 2 = 1 ELSE dropped[1] >= 5
    IN  IF up THEN StrOfInt(BigAdd(IntOfStr(kept), <<1>>)) ELSE kept

\* Decimal._fix: a result of more than DecimalPrec digits is rounded to
\* DecimalPrec of them, and once more should the rounding carry into a
\* further digit.
DecimalFix(x) ==
    IF Len(x.digits) <= DecimalPrec THEN x
    ELSE LET coeff == RoundHalfEven(x.digits, DecimalPrec)
             exp_min == Len(x.digits) + x.exp - DecimalPrec
         IN  IF Len(coeff) > DecimalPrec
             THEN [digits |-> SubSeq(coeff, 1, Len(coeff) - 1), exp |-> exp_min + 1]
             ELSE [digits |-> coeff, exp |-> exp_min]

\* Decimal.__mul__
DecimalMul(x, y) ==
    IF x.digits = <<0>> \/ y.digits = <<0>>
    THEN DecimalFix([digits |-> <<0>>, exp |-> x.exp + y.exp])
    ELSE DecimalFix([digits |-> StrOfInt(BigMul(IntOfStr(x.digits), IntOfStr(y.digits))),
                     exp |-> x.exp + y.exp])

\* Decimal.__truediv__ for a divisor that is a power of ten, as
\* 10 ** decimals is: DecimalPrec + 1 digits of quotient, the last one made
\* to show a remainder; an exact quotient loses its trailing zeros down to
\* the exponent x.exp - y.exp.
DecimalDiv(x, y) ==
    IF x.digits = <<0>>
    THEN DecimalFix([digits |-> <<0>>, exp |-> x.exp - y.exp])
    ELSE LET shift == Len(y.digits) - Len(x.digits) + DecimalPrec + 1
             exp == x.exp - y.exp - shift
             dm == IF shift >= 0
                   THEN DivModPow10(x.digits \o Zeros(shift), y.digits)
                   ELSE DivModPow10(x.digits, y.digits \o Zeros(0 - shift))
             q == StrOfInt(dm.q)
             last == q[Len(q)]
             nonzero == {i \in 1..Len(q) : q[i] # 0}
             trailing == Len(q) - (CHOOSE i \in nonzero : \A j \in nonzero : j <= i)
             strip == Min(trailing, Max(x.exp - y.exp - exp, 0))
         IN  IF Len(dm.rem) # 0
             THEN DecimalFix([digits |-> IF last % 5 = 0
                                         THEN [q EXCEPT ![Len(q)] = last + 1] ELSE q,
                              exp |-> exp])
             ELSE DecimalFix([digits |-> SubSeq(q, 1, Len(q) - strip),
                              exp |-> exp + strip])

\* Decimal.__int__: the digits left of the point.
IntOfDecimal(x) ==
    IF x.exp >= 0
    THEN BigMul(IntOfStr(x.digits), BigPow10(x.exp))
    ELSE IntOfStr(SubSeq(x.digits, 1, Len(x.digits) + x.exp))

\* Decimal.__str__: plain notation while the exponent is at most 0 and
\* fewer than six zeros would follow the point, scientific otherwise.
StrOfDecimal(x) ==
    LET n == Len(x.digits)
        leftdigits == x.exp + n
        dotplace == IF x.exp <= 0 /\ leftdigits > -6 THEN leftdigits ELSE 1
        intpart == IF dotplace <= 0 THEN <<0>>
                   ELSE IF dotplace >= n THEN x.digits \o Zeros(dotplace - n)
                   ELSE SubSeq(x.digits, 1, dotplace)
        fracpart == IF dotplace <= 0 THEN <<Dot>> \o Zeros(0 - dotplace) \o x.digits
                    ELSE IF dotplace >= n THEN << >>
                    ELSE <<Dot>> \o SubSeq(x.digits, dotplace + 1, n)
        e == leftdigits - dotplace
        exppart == IF e = 0 THEN << >>
                   ELSE IF e < 0 THEN <<ExpMark, MinusSign>> \o SmallNatDigits(0 - e)
                   ELSE <<ExpMark, PlusSign>> \o SmallNatDigits(e)
    IN  intpart \o fracpart \o exppart

\* Line 42: str(int(Decimal(amount) * (10 ** decimals)))
format_token_amount(amount, decimals) ==
    StrOfInt(IntOfDecimal(DecimalMul(DecimalOfStr(amount), DecimalOfInt(BigPow10(decimals)))))

\* Line 57: str(Decimal(amount) / (10 ** decimals))
parse_token_amount(amount, decimals) ==
    StrOfDecimal(DecimalDiv(DecimalOfStr(amount), DecimalOfInt(BigPow10(decimals))))

(***************************************************************************)
(* SpecUtils: a caller makes two calls of the utilities in a row, the      *)
(* second possibly on what the first returned.                             *)
(***************************************************************************)
\* await-free calls: each is over before the next is made.
UtilCalls == {1, 2}

\* parse_token_amount(amount, decimals)
CallParseTokenAmount(t, amounts, decimalses) ==
    /\ task[t].pc = "idle"
    /\ \A u \in DOMAIN task : u < t => task[u].pc \in {"returned", "raised"}
    /\ \E amount \in amounts, decimals \in decimalses :
          /\ task' = [task EXCEPT ![t] =
                IF DecimalOfStr(amount) = InvalidDecimal
                THEN Raised([@ EXCEPT !.op = "parse_token_amount"], "InvalidOperation")
                ELSE Returned([@ EXCEPT !.op = "parse_token_amount"],
                              parse_token_amount(amount, decimals))]
          /\ events' = Append(events, Event(t, "parse_token_amount", TRUE,
                                            [amount |-> amount, decimals |-> decimals]))
    /\ UNCHANGED <<chain, client>>

\* format_token_amount(amount, decimals)
CallFormatTokenAmount(t, amounts, decimalses) ==
    /\ task[t].pc = "idle"
    /\ \A u \in DOMAIN task : u < t => task[u].pc \in {"returned", "raised"}
    /\ \E amount \in amounts, decimals \in decimalses :
          /\ task' = [task EXCEPT ![t] =
                IF DecimalOfStr(amount) = InvalidDecimal
                THEN Raised([@ EXCEPT !.op = "format_token_amount"], "InvalidOperation")
                ELSE Returned([@ EXCEPT !.op = "format_token_amount"],
                              format_token_amount(amount, decimals))]
          /\ events' = Append(events, Event(t, "format_token_amount", TRUE,
                                            [amount |-> amount, decimals |-> decimals]))
    /\ UNCHANGED <<chain, client>>

\* Token decimals: none, one, USDC's and ETH's.
DecimalsInputs == {0, 1, 6, 18}

\* Amounts in the smallest unit: "0", "1", "10", "1500000", 10^18, one of
\* 28 digits, two of 29 digits and 10^33.
SmallestUnitAmounts ==
    { <<0>>, <<1>>, <<1, 0>>, <<1, 5, 0, 0, 0, 0, 0>>,
      <<1>> \o Zeros(18),
      <<1, 2, 3, 4, 5, 6, 7, 8, 9, 0, 1, 2, 3, 4, 5, 6, 7, 8, 9, 0, 1, 2, 3, 4, 5, 6, 7, 8>>,
      <<1, 2, 3, 4, 5, 6, 7, 8, 9, 0, 1, 2, 3, 4, 5, 6, 7, 8, 9, 0, 1, 2, 3, 4, 5, 6, 7, 8, 9>>,
      <<1>> \o Zeros(27) \o <<1>>,
      <<1>> \o Zeros(33) }

\* Amounts as a person writes them: "1.5", "0.000001", "1", "0.1",
\* "1.5555555", "12345678901.123456789012345678", and one that is no
\* number.
HumanAmounts ==
    { <<1, Dot, 5>>, <<0, Dot, 0, 0, 0, 0, 0, 1>>, <<1>>, <<0, Dot, 1>>,
      <<1, Dot, 5, 5, 5, 5, 5, 5, 5>>,
      <<1, 2, 3, 4, 5, 6, 7, 8, 9, 0, 1, Dot,
        1, 2, 3, 4, 5, 6, 7, 8, 9, 0, 1, 2, 3, 4, 5, 6, 7, 8>>,
      <<NonDigit>> }

\* What parse_token_amount has returned so far.
ParsedAmounts ==
    {task[u].result : u \in {v \in DOMAIN task : /\ task[v].op = "parse_token_amount"
                                                  /\ task[v].pc = "returned"}}

InitUtils ==
    /\ task = [t \in UtilCalls |-> IdleTask]
    /\ chain = [count |-> 0, gas_price |-> NodeGasPrice, pending |-> {}]
    /\ client = NoClient
    /\ events = << >>

NextUtils ==
    \E t \in UtilCalls :
        \/ CallParseTokenAmount(t, SmallestUnitAmounts, DecimalsInputs)
        \/ CallFormatTokenAmount(t, HumanAmounts \cup ParsedAmounts, DecimalsInputs)

SpecUtils == InitUtils /\ [][NextUtils]_vars

(***************************************************************************)
(* What the history shows.                                                 *)
(***************************************************************************)
\* The calls execute_transaction makes on the node, and all the calls that
\* leave the process.
PipelineOps ==
    {"get_transaction_count", "gas_price", "estimate_gas", "sign_transaction",
     "send_raw_transaction"}

NetworkOps ==
    (PipelineOps \ {"sign_transaction"})
        \cup {"wait_for_transaction_receipt", "http_get", "http_response"}

OkEventsOf(t, op) == {k \in EventsOf(t, op) : events[k].ok}

AtStep(ks, step) == {k \in ks : events[k].step = step}

InRoute(t) == task[t].op \in {"execute_route", "transfer"}

\* Nothing the task asked of a collaborator has failed, and every receipt
\* it was given carries a status.
AllSucceeded(t) ==
    /\ \A k \in DOMAIN events : events[k].task = t => events[k].ok
    /\ \A k \in OkEventsOf(t, "wait_for_transaction_receipt") :
          "status" \in DOMAIN events[k].arg.receipt

\* The identifier execute_transaction returned for the step, given that it
\* returned one.
HashOfStep(t, step) ==
    Hex(TxHash(events[CHOOSE k \in AtStep(OkEventsOf(t, "send_raw_transaction"), step) : TRUE].arg))

(***************************************************************************)
(* C1: in execute_route no operation of a step after the first (nonce      *)
(* fetch, gas price read, estimation, signing, broadcast) happens before   *)
(* the step before it was broadcast and a receipt for that broadcast's     *)
(* identifier came back; the steps are taken in the order of the route's   *)
(* step list, each on its own descriptor.                                  *)
(***************************************************************************)
C1_StepsInOrderAndGated ==
    \A t \in Tasks : InRoute(t) =>
        /\ \A p \in DOMAIN events :
              (events[p].task = t /\ events[p].op \in PipelineOps /\ events[p].step > 0) =>
                 \E q \in 1..(p - 1), r \in 1..(p - 1) :
                    /\ q < r
                    /\ q \in AtStep(OkEventsOf(t, "send_raw_transaction"), events[p].step - 1)
                    /\ r \in AtStep(OkEventsOf(t, "wait_for_transaction_receipt"),
                                    events[p].step - 1)
                    /\ events[r].arg.query.tx_hash = Hex(TxHash(events[q].arg))
        /\ \A p \in EventsOf(t, "execute_transaction") :
              /\ events[p].step = Cardinality({q \in EventsOf(t, "execute_transaction") : q < p})
              /\ events[p].arg = DecodeStep(task[t].route_data["steps"][events[p].step + 1])
        /\ \A p \in EventsOf(t, "send_raw_transaction") :
              /\ events[p].arg.tx.to =
                    DecodeStep(task[t].route_data["steps"][events[p].step + 1]).to
              /\ events[p].arg.tx.data =
                    DecodeStep(task[t].route_data["steps"][events[p].step + 1]).data

\* The second step of a route has been broadcast.
C1_Witness ==
    \E t \in Tasks :
        /\ task[t].op = "execute_route"
        /\ AtStep(OkEventsOf(t, "send_raw_transaction"), 1) # {}

(***************************************************************************)
(* C2: when everything succeeds, execute_route on a route of N steps       *)
(* returns N identifiers, the k-th the one execute_transaction returned    *)
(* for the k-th step, and has called execute_transaction and               *)
(* wait_for_transaction once for each step.  (Succeeding includes every    *)
(* receipt carrying a status.)                                             *)
(***************************************************************************)
C2_RouteReturnsOnePerStep ==
    \A t \in Tasks : (task[t].op = "execute_route" /\ HasSteps(task[t].route_data)) =>
        LET N == Len(task[t].route_data["steps"])
        IN  /\ AllSucceeded(t) => task[t].pc # "raised"
            /\ (task[t].pc = "returned" /\ AllSucceeded(t)) =>
                  /\ Len(task[t].result) = N
                  /\ task[t].result = [k \in 1..N |-> HashOfStep(t, k - 1)]
                  /\ Cardinality(EventsOf(t, "execute_transaction")) = N
                  /\ Cardinality(EventsOf(t, "wait_for_transaction")) = N
                  /\ \A k \in 0..(N - 1) :
                        /\ Cardinality(AtStep(EventsOf(t, "execute_transaction"), k)) = 1
                        /\ Cardinality(AtStep(EventsOf(t, "wait_for_transaction"), k)) = 1
                        /\ Cardinality(AtStep(EventsOf(t, "send_raw_transaction"), k)) = 1
                        /\ Cardinality(AtStep(EventsOf(t, "wait_for_transaction_receipt"), k)) = 1

\* A route of two steps has returned its two identifiers.
C2_Witness ==
    \E t \in Tasks :
        /\ task[t].op = "execute_route"
        /\ task[t].pc = "returned"
        /\ AllSucceeded(t)
        /\ Len(task[t].result) = 2
        /\ task[t].result[1] # task[t].result[2]

(***************************************************************************)
(* C3: when execute_transaction or wait_for_transaction fails at a step of *)
(* execute_route, the route ends there with that error: the task does      *)
(* nothing more (no retry, no later step, nothing sent to undo what was    *)
(* broadcast), and it returns no list, not even the identifiers it had.    *)
(***************************************************************************)
C3_FailureEndsRoute ==
    \A t \in Tasks : InRoute(t) =>
        \A p \in DOMAIN events :
            ( /\ events[p].task = t
              /\ ~events[p].ok
              /\ events[p].op \in (PipelineOps \ {"estimate_gas"})
                                    \cup {"wait_for_transaction_receipt"} ) =>
                /\ \A q \in DOMAIN events : q > p => events[q].task # t
                /\ task[t].pc = "raised"
                /\ task[t].error = "StargateTransactionError"
                /\ task[t].result = << >>
                /\ \A q \in OkEventsOf(t, "send_raw_transaction") :
                      \/ Hex(TxHash(events[q].arg)) \in chain.pending
                      \/ \E r \in OkEventsOf(t, "wait_for_transaction_receipt") :
                            events[r].arg.query.tx_hash = Hex(TxHash(events[q].arg))

\* The wait of a route's second step failed, after its first was confirmed.
C3_Witness ==
    \E t \in Tasks :
        /\ task[t].op = "execute_route"
        /\ task[t].pc = "raised"
        /\ Len(task[t].tx_hashes) = 1
        /\ AtStep(EventsOf(t, "wait_for_transaction_receipt") \ OkEventsOf(t, "wait_for_transaction_receipt"), 1) # {}

(***************************************************************************)
(* C4: execute_route on a route whose step list is empty or absent fails   *)
(* with a transaction error, and calls nothing outside the process.        *)
(***************************************************************************)
C4_NoStepsNoCalls ==
    \A t \in Tasks :
      ( /\ task[t].op = "execute_route"
        /\ \/ "steps" \notin DOMAIN task[t].route_data
           \/ task[t].route_data["steps"] = << >> ) =>
        /\ task[t].pc \in {"route_check", "raised"}
        /\ task[t].pc = "raised" => task[t].error = "StargateTransactionError"
        /\ \A k \in DOMAIN events :
              events[k].task = t => events[k].op \notin NetworkOps \cup {"sign_transaction", "sleep"}

\* It has failed so on an empty step list.
C4_Witness ==
    \E t \in Tasks :
        /\ task[t].op = "execute_route"
        /\ task[t].pc = "raised"
        /\ "steps" \in DOMAIN task[t].route_data
        /\ task[t].route_data["steps"] = << >>

(***************************************************************************)
(* C5: when the quote response holds no route ("quotes" empty or missing), *)
(* transfer fails with an API error and never reaches the executor:        *)
(* execute_route is not called and nothing is prepared, signed, broadcast  *)
(* or waited for.                                                          *)
(***************************************************************************)
C5_NoQuotesNoExecution ==
    \A t \in Tasks : task[t].op = "transfer" =>
        \A k \in OkEventsOf(t, "http_response") :
            ( \/ "quotes" \notin DOMAIN events[k].arg
              \/ events[k].arg["quotes"] = << >> ) =>
                /\ task[t].pc \in {"transfer_select", "raised"}
                /\ task[t].pc = "raised" => task[t].error = "StargateAPIError"
                /\ \A e \in DOMAIN events :
                      events[e].task = t =>
                         events[e].op \notin PipelineOps \cup
                            {"execute_route", "execute_transaction",
                             "wait_for_transaction", "wait_for_transaction_receipt"}

\* transfer has failed on a response whose "quotes" is an empty list.
C5_Witness ==
    \E t \in Tasks :
        /\ task[t].op = "transfer"
        /\ task[t].pc = "raised"
        /\ \E k \in OkEventsOf(t, "http_response") :
              "quotes" \in DOMAIN events[k].arg /\ events[k].arg["quotes"] = << >>

(***************************************************************************)
(* C6: when the quote response holds routes, transfer has made one quote   *)
(* request, executes the first route and no other, and returns what        *)
(* execute_route returns; with N steps in the first route and everything   *)
(* succeeding, that is N broadcasts, N waits and the N identifiers of the  *)
(* broadcast transactions, in order.                                       *)
(***************************************************************************)
C6_TransferExecutesFirstRoute ==
    \A t \in Tasks : task[t].op = "transfer" =>
        /\ Cardinality(EventsOf(t, "http_get")) =
              (IF task[t].pc = "quotes_request" THEN 0 ELSE 1)
        /\ \A k \in OkEventsOf(t, "http_response") :
              ("quotes" \in DOMAIN events[k].arg /\ Len(events[k].arg["quotes"]) >= 1) =>
                 LET first == events[k].arg["quotes"][1]
                 IN  /\ Cardinality(EventsOf(t, "execute_route")) <= 1
                     /\ \A e \in EventsOf(t, "execute_route") : events[e].arg = first
                     /\ \A e \in EventsOf(t, "execute_transaction") :
                           events[e].arg = DecodeStep(first["steps"][events[e].step + 1])
                     /\ \A e \in EventsOf(t, "send_raw_transaction") :
                           events[e].arg.tx.to =
                              DecodeStep(first["steps"][events[e].step + 1]).to
                     /\ ("steps" \in DOMAIN first /\ Len(first["steps"]) >= 1 /\ AllSucceeded(t))
                           => task[t].pc # "raised"
                     /\ task[t].pc = "returned" =>
                           LET N == Len(first["steps"])
                           IN  /\ task[t].result = task[t].tx_hashes
                               /\ task[t].result = [j \in 1..N |-> HashOfStep(t, j - 1)]
                               /\ Cardinality(EventsOf(t, "send_raw_transaction")) = N
                               /\ Cardinality(EventsOf(t, "wait_for_transaction_receipt")) = N

\* transfer has returned the two identifiers of a first route of two steps,
\* from a response that held a second route.
C6_Witness ==
    \E t \in Tasks :
        /\ task[t].op = "transfer"
        /\ task[t].pc = "returned"
        /\ Len(task[t].result) = 2
        /\ Len(task[t].quotes_data["quotes"]) = 2

(***************************************************************************)
(* C7: the dst_amount_min transfer sends to the quote service is           *)
(* floor(amount * (1 - slippage_tolerance)), exactly, for every amount     *)
(* and every tolerance in [0, 1] ("1000000" at 0.05 gives "950000").       *)
(***************************************************************************)
\* floor(amount * (den - num) / den) in integers.
ExactDstAmountMin(amount, slippage) ==
    StrOfInt(BigDivSmall(BigMulSmall(IntOfStr(amount), slippage.den - slippage.num),
                         slippage.den)[1])

C7_DstAmountMinExact ==
    \A t \in Tasks :
        \A k \in EventsOf(t, "http_get") :
            LET args == events[CHOOSE c \in EventsOf(t, "transfer") : TRUE].arg
            IN  /\ Cardinality(EventsOf(t, "http_get")) = 1
                /\ events[k].arg.params.dstAmountMin =
                      ExactDstAmountMin(args.amount, args.slippage_tolerance)

(***************************************************************************)
(* C8: a failed gas estimation does not fail execute_transaction: the      *)
(* transaction is signed and broadcast, once, with the default limit       *)
(* 300000, and the identifier of that broadcast is returned.               *)
(***************************************************************************)
C8_EstimationFailureKeepsDefault ==
    \A t \in Tasks :
        \A p \in EventsOf(t, "estimate_gas") \ OkEventsOf(t, "estimate_gas") :
            LET later(op) == {q \in AtStep(EventsOf(t, op), events[p].step) : q > p}
            IN  /\ p = Len(events) =>
                      task[t].pc = "tx_sign" /\ task[t].transaction["gas"] = DefaultGasLimit
                /\ Cardinality(later("sign_transaction")) <= 1
                /\ Cardinality(later("send_raw_transaction")) <= 1
                /\ \A q \in later("sign_transaction") : events[q].arg["gas"] = DefaultGasLimit
                /\ \A q \in later("send_raw_transaction") :
                      events[q].arg.tx["gas"] = DefaultGasLimit
                /\ task[t].op = "execute_transaction" =>
                      /\ task[t].pc = "raised" =>
                            \E q \in later("sign_transaction") \cup later("send_raw_transaction") :
                               ~events[q].ok
                      /\ task[t].pc = "returned" =>
                            /\ Cardinality(OkEventsOf(t, "send_raw_transaction")) = 1
                            /\ task[t].result = HashOfStep(t, 0)

\* execute_transaction has returned an identifier after a failed estimation.
C8_Witness ==
    \E t \in Tasks :
        /\ task[t].op = "execute_transaction"
        /\ task[t].pc = "returned"
        /\ EventsOf(t, "estimate_gas") \ OkEventsOf(t, "estimate_gas") # {}

(***************************************************************************)
(* C9: when the estimation gives e, the gas limit of the transaction that  *)
(* is signed and broadcast is ceil(e * 1.2), never below e * 1.2.          *)
(***************************************************************************)
C9_GasIsCeilOfProduct ==
    \A t \in Tasks :
        \A p \in OkEventsOf(t, "estimate_gas") :
            \A q \in AtStep(EventsOf(t, "send_raw_transaction"), events[p].step) :
                /\ events[q].arg.tx["gas"] = (6 * events[p].arg + 4) \div 5
                /\ 5 * events[q].arg.tx["gas"] >= 6 * events[p].arg

(***************************************************************************)
(* C9, amended: the gas limit signed and broadcast is the product e * 1.2  *)
(* of the floats cut to an integer, floor(6e/5): at least e, and below     *)
(* e * 1.2 when e is no multiple of 5.                                     *)
(***************************************************************************)
C9_GasIsFloorOfProduct ==
    \A t \in Tasks :
        \A p \in OkEventsOf(t, "estimate_gas") :
            /\ \A q \in AtStep(EventsOf(t, "sign_transaction"), events[p].step) :
                  events[q].arg["gas"] = (6 * events[p].arg) \div 5
            /\ \A q \in AtStep(EventsOf(t, "send_raw_transaction"), events[p].step) :
                  /\ events[q].arg.tx["gas"] = (6 * events[p].arg) \div 5
                  /\ events[q].arg.tx["gas"] >= events[p].arg
                  /\ events[p].arg % 5 # 0 => 5 * events[q].arg.tx["gas"] < 6 * events[p].arg

\* A transaction was broadcast with limit 3 after an estimate of 3.
C9_Witness ==
    \E t \in Tasks :
        \E p \in OkEventsOf(t, "estimate_gas") :
            /\ events[p].arg = 3
            /\ \E q \in OkEventsOf(t, "send_raw_transaction") : events[q].arg.tx["gas"] = 3

(***************************************************************************)
(* C10: the prepared transaction has no value field when the descriptor's  *)
(* value is "" or "0" (or was absent from the step), and the value as an   *)
(* integer otherwise; it carries the descriptor's to and data, the nonce   *)
(* read, gas 300000 and the node's gas price, and nothing else.            *)
(***************************************************************************)
C10_PreparedTransactionFields ==
    \A t \in Tasks : task[t].pc = "tx_estimate" =>
        LET transaction == task[t].transaction
            tx_data     == task[t].tx_data
            nonces      == AtStep(OkEventsOf(t, "get_transaction_count"), task[t].i)
        IN  /\ DOMAIN transaction =
                  {"to", "data", "nonce", "gas", "gasPrice"}
                     \cup (IF tx_data.value = << >> \/ tx_data.value = <<0>>
                           THEN {} ELSE {"value"})
            /\ transaction["to"] = tx_data.to
            /\ transaction["data"] = tx_data.data
            /\ \A k \in nonces : transaction["nonce"] = events[k].arg
            /\ Cardinality(nonces) = 1
            /\ transaction["gas"] = 300000
            /\ transaction["gasPrice"] = chain.gas_price
            /\ "value" \in DOMAIN transaction =>
                  /\ transaction["value"] = IntOfStr(tx_data.value)
                  /\ StrOfInt(transaction["value"]) = StrOfInt(IntOfStr(tx_data.value))
            /\ InRoute(t) =>
                  LET step == task[t].route_data["steps"][task[t].i + 1]
                  IN  ( \/ "transaction" \notin DOMAIN step
                        \/ "value" \notin DOMAIN step["transaction"] )
                          => "value" \notin DOMAIN transaction

\* A transaction was prepared with value 10^18 from the descriptor's
\* "1000000000000000000".
C10_Witness ==
    \E t \in Tasks :
        /\ task[t].pc = "tx_estimate"
        /\ "value" \in DOMAIN task[t].transaction
        /\ task[t].transaction["value"] = <<0, 0, 0, 0, 100>>
        /\ DOMAIN task[t].transaction = {"to", "data", "nonce", "gas", "gasPrice", "value"}

(***************************************************************************)
(* C11: what fails inside execute_transaction, the estimation aside (the   *)
(* nonce fetch, the gas price read, the conversion of the value, signing,  *)
(* the broadcast), reaches the caller as StargateTransactionError and as   *)
(* nothing else; and when the nonce fetch, the preparation or signing      *)
(* failed, nothing was broadcast.                                          *)
(***************************************************************************)
C11_FailuresAreTransactionErrors ==
    \A t \in Tasks : task[t].op = "execute_transaction" =>
        LET failed(op) == EventsOf(t, op) \ OkEventsOf(t, op)
            unconverted == /\ OkEventsOf(t, "gas_price") # {}
                           /\ task[t].tx_data.value \notin {<< >>, <<0>>}
                           /\ \E p \in DOMAIN task[t].tx_data.value :
                                 task[t].tx_data.value[p] \notin 0..9
            early == failed("get_transaction_count") \cup failed("gas_price")
                        \cup failed("sign_transaction")
        IN  /\ task[t].pc = "raised" => task[t].error = "StargateTransactionError"
            /\ (early \cup failed("send_raw_transaction") # {} \/ unconverted) =>
                  /\ task[t].pc = "raised"
                  /\ task[t].error = "StargateTransactionError"
            /\ (early # {} \/ unconverted) =>
                  /\ EventsOf(t, "send_raw_transaction") = {}
                  /\ chain.pending = {}
            /\ task[t].pc = "raised" =>
                  \/ early \cup failed("send_raw_transaction") # {}
                  \/ unconverted

\* execute_transaction has raised on a signing that failed, after the
\* nonce and the gas price were read.
C11_Witness ==
    \E t \in Tasks :
        /\ task[t].op = "execute_transaction"
        /\ task[t].pc = "raised"
        /\ task[t].error = "StargateTransactionError"
        /\ EventsOf(t, "sign_transaction") \ OkEventsOf(t, "sign_transaction") # {}
        /\ OkEventsOf(t, "gas_price") # {}

(***************************************************************************)
(* C12: wait_for_transaction(tx_hash) asks the node once for the receipt   *)
(* of that tx_hash, with the caller's timeout or 300 when none was given;  *)
(* it returns the receipt it got, and raises StargateTransactionError when *)
(* the query failed or timed out, without asking again.                    *)
(***************************************************************************)
C12_WaitPollsOnceForTheHash ==
    \A t \in Tasks : task[t].op = "wait_for_transaction" =>
        LET args  == events[CHOOSE c \in EventsOf(t, "wait_for_transaction") : TRUE].arg
            polls == EventsOf(t, "wait_for_transaction_receipt")
        IN  /\ Cardinality(polls) <= 1
            /\ \A k \in DOMAIN events :
                  events[k].task = t =>
                     events[k].op \in {"wait_for_transaction", "wait_for_transaction_receipt"}
            /\ \A k \in polls :
                  /\ events[k].arg.query.tx_hash = args.tx_hash
                  /\ events[k].arg.query.timeout =
                        (IF "timeout" \in DOMAIN args THEN args.timeout ELSE 300)
                  /\ events[k].ok =>
                        task[t].pc = "returned" /\ task[t].result = events[k].arg.receipt
                  /\ ~events[k].ok =>
                        task[t].pc = "raised" /\ task[t].error = "StargateTransactionError"
            /\ task[t].pc \in {"returned", "raised"} => polls # {}
            /\ chain.pending = {}

\* wait_for_transaction was given a timeout of 60 and has returned the
\* receipt of the query it made with it.
C12_Witness ==
    \E t \in Tasks :
        /\ task[t].op = "wait_for_transaction"
        /\ task[t].pc = "returned"
        /\ task[t].result = [status |-> 1, blockNumber |-> 1]
        /\ \E k \in OkEventsOf(t, "wait_for_transaction_receipt") :
              events[k].arg.query = [tx_hash |-> "0xabcdef1234567890", timeout |-> 60]

(***************************************************************************)
(* C13: when the quote request fails in transport, or the response has a   *)
(* status that is no success, what leaves get_quotes is StargateAPIError   *)
(* and no other kind of error; and get_quotes raises StargateAPIError for  *)
(* no other reason.                                                        *)
(***************************************************************************)
C13_RequestFailuresAreAPIErrors ==
    \A t \in Tasks :
        LET failures == {k \in EventsOf(t, "http_response") :
                            ~events[k].ok /\ events[k].arg \in {"transport", "status"}}
        IN  /\ failures # {} =>
                  /\ task[t].pc = "raised"
                  /\ task[t].error = "StargateAPIError"
                  /\ Cardinality(EventsOf(t, "http_response")) = 1
            /\ (task[t].op = "get_quotes" /\ task[t].pc = "raised"
                   /\ task[t].error = "StargateAPIError") => failures # {}

\* get_quotes has raised StargateAPIError on a response with an error
\* status.
C13_Witness ==
    \E t \in Tasks :
        /\ task[t].op = "get_quotes"
        /\ task[t].pc = "raised"
        /\ task[t].error = "StargateAPIError"
        /\ \E k \in EventsOf(t, "http_response") : ~events[k].ok /\ events[k].arg = "status"

(***************************************************************************)
(* C14: a call of get_quotes makes one request, to the quotes endpoint,    *)
(* whether it succeeds or fails; the request carries the eight fields of   *)
(* the QuoteParams under srcToken, dstToken, srcAddress, dstAddress,       *)
(* srcChainKey, dstChainKey, srcAmount and dstAmountMin, unchanged; the    *)
(* parsed response is returned as it is, one without routes included.      *)
(***************************************************************************)
C14_OneRequestEightFields ==
    \A t \in Tasks : task[t].op \in {"get_quotes", "transfer"} =>
        LET calls     == EventsOf(t, "get_quotes")
            requests  == EventsOf(t, "http_get")
            responses == EventsOf(t, "http_response")
        IN  /\ Cardinality(requests) <= 1
            /\ Cardinality(responses) <= Cardinality(requests)
            /\ (calls # {} /\ task[t].pc # "quotes_request") => Cardinality(requests) = 1
            /\ \A k \in requests :
                  LET params == events[CHOOSE c \in calls : TRUE].arg
                      query  == events[k].arg.params
                  IN  /\ events[k].arg.path = "/quotes"
                      /\ DOMAIN query = {"srcToken", "dstToken", "srcAddress", "dstAddress",
                                         "srcChainKey", "dstChainKey", "srcAmount",
                                         "dstAmountMin"}
                      /\ query.srcToken = params.src_token
                      /\ query.dstToken = params.dst_token
                      /\ query.srcAddress = params.src_address
                      /\ query.dstAddress = params.dst_address
                      /\ query.srcChainKey = params.src_chain_key
                      /\ query.dstChainKey = params.dst_chain_key
                      /\ query.srcAmount = params.src_amount
                      /\ query.dstAmountMin = params.dst_amount_min
            /\ task[t].op = "get_quotes" =>
                  /\ \A k \in responses :
                        events[k].ok =>
                           task[t].pc = "returned" /\ task[t].result = events[k].arg
                  /\ task[t].pc = "returned" => \E k \in responses : events[k].ok

\* get_quotes has returned a response that holds no route.
C14_Witness ==
    \E t \in Tasks :
        /\ task[t].op = "get_quotes"
        /\ task[t].pc = "returned"
        /\ task[t].result = [quotes |-> << >>]
        /\ Cardinality(EventsOf(t, "http_get")) = 1

(***************************************************************************)
(* C15: each call of execute_transaction reads the account's nonce from    *)
(* the node once, before it prepares, and signs and broadcasts with that   *)
(* value; in one run of execute_route, where the account's count grows by  *)
(* one with each confirmed transaction, a later step's nonce is above an   *)
(* earlier step's, so no two steps use the same.                           *)
(***************************************************************************)
C15_NonceReadOncePerStep ==
    \A t \in Tasks :
        /\ \A q \in DOMAIN events :
              (events[q].task = t /\ events[q].op \in PipelineOps) =>
                 LET reads == AtStep(EventsOf(t, "get_transaction_count"), events[q].step)
                 IN  /\ Cardinality(reads) = 1
                     /\ \A r \in reads :
                           /\ r <= q
                           /\ r < q =>
                                 /\ events[r].ok
                                 /\ events[q].op = "sign_transaction" =>
                                       events[q].arg["nonce"] = events[r].arg
                                 /\ events[q].op = "send_raw_transaction" =>
                                       events[q].arg.tx["nonce"] = events[r].arg
        /\ task[t].pc \in {"tx_prepare", "tx_estimate", "tx_sign", "tx_send"} =>
              \E r \in AtStep(OkEventsOf(t, "get_transaction_count"), task[t].i) :
                 task[t].nonce = events[r].arg
        /\ \A q1, q2 \in EventsOf(t, "sign_transaction") :
              events[q1].step < events[q2].step =>
                 events[q1].arg["nonce"] < events[q2].arg["nonce"]

\* A route of two steps has returned; its second step was signed with the
\* nonce after its first step's.
C15_Witness ==
    \E t \in Tasks :
        /\ task[t].op = "execute_route"
        /\ task[t].pc = "returned"
        /\ \E q1, q2 \in OkEventsOf(t, "send_raw_transaction") :
              /\ events[q1].step = 0
              /\ events[q2].step = 1
              /\ events[q2].arg.tx["nonce"] = events[q1].arg.tx["nonce"] + 1

(***************************************************************************)
(* C16: constructing the client with no explicit private key and no key in *)
(* the environment fails with StargateConfigError, before any network      *)
(* activity: no connection to the chain's RPC endpoint and no HTTP client  *)
(* is created.                                                             *)
(***************************************************************************)
C16_NoKeyIsConfigError ==
    \A t \in Tasks :
        \A k \in EventsOf(t, "__init__") :
            (events[k].arg.private_key \in {Absent, << >>}
                /\ events[k].arg.env \in {Absent, << >>}) =>
               /\ task[t].pc = "raised"
               /\ task[t].error = "StargateConfigError"
               /\ EventsOf(t, "HTTPProvider") \cup EventsOf(t, "AsyncClient") = {}

(***************************************************************************)
(* C16, as the code has it: constructing the client with no explicit key   *)
(* and no key in the environment fails with ValueError, before any network *)
(* activity: no connection to the chain's RPC endpoint, no account and no  *)
(* HTTP client is created, and there is no client to use.                  *)
(***************************************************************************)
C16_NoKeyIsValueError ==
    \A t \in Tasks :
        \A k \in EventsOf(t, "__init__") :
            (events[k].arg.private_key \in {Absent, << >>}
                /\ events[k].arg.env \in {Absent, << >>}) =>
               /\ task[t].pc = "raised"
               /\ task[t].error = "ValueError"
               /\ EventsOf(t, "HTTPProvider") \cup EventsOf(t, "AsyncClient")
                     \cup EventsOf(t, "from_key") = {}
               /\ \A q \in DOMAIN events : events[q].op \notin NetworkOps
               /\ client.state = "failed"
               /\ client.w3 = "none"
               /\ client.http_client = "none"

\* Construction has failed with no key given and EVM_PRIVATE_KEY not set.
C16_Witness ==
    \E t \in Tasks :
        /\ task[t].pc = "raised"
        /\ task[t].op = "__init__"
        /\ \E k \in EventsOf(t, "__init__") :
              events[k].arg = [private_key |-> Absent, env |-> Absent]

(***************************************************************************)
(* C17: after a construction that succeeded, the client's private key is   *)
(* the explicit key when one was given and the environment's otherwise,    *)
(* with "0x" put before it unless it starts with "0x" already, in which    *)
(* case it is kept as it is; the account is the one derived from that key. *)
(***************************************************************************)
C17_KeyChosenAndPrefixed ==
    \A t \in Tasks :
        \A k \in EventsOf(t, "__init__") :
            client.state = "ready" =>
               LET explicit == events[k].arg.private_key
                   chosen   == IF explicit # Absent /\ explicit # << >>
                               THEN explicit ELSE events[k].arg.env
                   prefixed == Len(chosen) >= 2 /\ chosen[1] = "0" /\ chosen[2] = "x"
               IN  /\ chosen # Absent /\ chosen # << >>
                   /\ prefixed => client.private_key = chosen
                   /\ ~prefixed => client.private_key = <<"0", "x">> \o chosen
                   /\ client.private_key[1] = "0" /\ client.private_key[2] = "x"
                   /\ client.account = [address |-> AddressOf(client.private_key)]
                   /\ \A q \in EventsOf(t, "from_key") :
                         events[q].ok /\ events[q].arg = client.private_key
                   /\ Cardinality(EventsOf(t, "from_key")) = 1

\* The client was constructed from the environment's "e", no explicit key
\* given, and holds "0xe".
C17_Witness ==
    \E t \in Tasks :
        /\ client.state = "ready"
        /\ client.private_key = <<"0", "x", "e">>
        /\ \E k \in EventsOf(t, "__init__") :
              events[k].arg = [private_key |-> Absent, env |-> <<"e">>]

(***************************************************************************)
(* C18: the HTTP client made at construction is closed once, when the      *)
(* async with on the client ends, whether its body ended or raised; no     *)
(* operation in the body closes it before; and what the body raised still  *)
(* reaches the caller.                                                     *)
(***************************************************************************)
C18_ClosedOnceAtExit ==
    \A t \in Tasks :
        LET closes == EventsOf(t, "aclose")
            exits  == EventsOf(t, "__aexit__")
        IN  /\ Cardinality(closes) = (IF client.scope = "exited" THEN 1 ELSE 0)
            /\ Cardinality(exits) = Cardinality(closes)
            /\ client.http_client = "closed" <=> client.scope = "exited"
            /\ client.state = "ready" /\ client.scope # "exited" => client.http_client = "open"
            /\ \A c \in closes : \A q \in DOMAIN events : q <= c
            /\ \A x \in exits :
                  IF events[x].arg = None
                  THEN task[t].pc = "returned"
                  ELSE task[t].pc = "raised" /\ task[t].error = events[x].arg

\* An async with whose body's get_quotes raised has ended: the HTTP client
\* is closed and the error is the caller's.
C18_Witness ==
    \E t \in Tasks :
        /\ client.scope = "exited"
        /\ client.http_client = "closed"
        /\ task[t].op = "get_quotes"
        /\ task[t].pc = "raised"
        /\ task[t].error = "StargateAPIError"
        /\ Cardinality(EventsOf(t, "aclose")) = 1

(***************************************************************************)
(* C19: whatever execute_route raises is StargateTransactionError, for any *)
(* route: one without steps, a step without a transaction or its fields,   *)
(* a failure in preparing, signing or broadcasting, and any outcome of the *)
(* confirmation, a receipt without a status among them.                    *)
(***************************************************************************)
C19_RouteRaisesTransactionErrorOnly ==
    \A t \in Tasks :
        (task[t].op = "execute_route" /\ task[t].pc = "raised") =>
            task[t].error = "StargateTransactionError"

(***************************************************************************)
(* C20: transfer sends the wallet's address as srcAddress when src_address *)
(* is not given and as dstAddress when dst_address is not given, and sends *)
(* a given address as it is; the one default does not depend on the other. *)
(***************************************************************************)
C20_AddressDefaults ==
    \A t \in Tasks : task[t].op = "transfer" =>
        \A k \in EventsOf(t, "http_get") :
            LET args  == events[CHOOSE c \in EventsOf(t, "transfer") : TRUE].arg
                query == events[k].arg.params
            IN  /\ query.srcAddress = (IF args.src_address \in {None, ""}
                                       THEN "0xWallet" ELSE args.src_address)
                /\ query.dstAddress = (IF args.dst_address \in {None, ""}
                                       THEN "0xWallet" ELSE args.dst_address)

\* transfer was given a source address and no destination address, and has
\* asked for quotes from the one to the wallet.
C20_Witness ==
    \E t \in Tasks :
        \E k \in EventsOf(t, "http_get") :
            /\ task[t].op = "transfer"
            /\ events[CHOOSE c \in EventsOf(t, "transfer") : TRUE].arg.src_address = "0xSender"
            /\ events[CHOOSE c \in EventsOf(t, "transfer") : TRUE].arg.dst_address = None
            /\ events[k].arg.params.srcAddress = "0xSender"
            /\ events[k].arg.params.dstAddress = "0xWallet"

(***************************************************************************)
(* C21: a call of get_supported_chains makes one request, to the chains    *)
(* endpoint, and its outcome is that request's: the parsed body is         *)
(* returned, a transport or status error raises StargateAPIError.  A call  *)
(* that failed leaves the client as it was, and the results of the calls   *)
(* before it stand: in a row of calls, call i succeeds exactly when its    *)
(* request does.                                                           *)
(***************************************************************************)
C21_ChainsCallsAreIndependent ==
    /\ client = ReadyClient
    /\ \A t \in DOMAIN task : task[t].op = "get_supported_chains" =>
          LET requests  == EventsOf(t, "http_get")
              responses == EventsOf(t, "http_response")
          IN  /\ Cardinality(requests) <= 1
              /\ Cardinality(responses) <= Cardinality(requests)
              /\ task[t].pc # "chains_request" => Cardinality(requests) = 1
              /\ \A k \in requests : events[k].arg = [path |-> "/chains"]
              /\ task[t].pc \in {"returned", "raised"} <=> responses # {}
              /\ \A k \in responses :
                    /\ events[k].ok =>
                          task[t].pc = "returned" /\ task[t].result = events[k].arg
                    /\ (~events[k].ok /\ events[k].arg \in {"transport", "status"}) =>
                          task[t].pc = "raised" /\ task[t].error = "StargateAPIError"
                    /\ ~events[k].ok => task[t].pc = "raised"

\* Three calls in a row: the first returned, the second raised on an error
\* status, the third returned.
C21_Witness ==
    /\ task[1].pc = "returned"
    /\ task[2].pc = "raised" /\ task[2].error = "StargateAPIError"
    /\ task[3].pc = "returned"
    /\ task[3].result = [ethereum |-> [chainId |-> 1], polygon |-> [chainId |-> 137]]
    /\ task[1].result = [chains |-> << >>]

(***************************************************************************)
(* C22: in one call of execute_transaction the nonce fetch, the gas price  *)
(* read, the estimation, the signing and the broadcast happen in that      *)
(* order, each at most once; the broadcast comes only after a signing that *)
(* succeeded, its bytes are the signed bytes of the prepared transaction,  *)
(* and the identifier returned is the hash that broadcast gave.            *)
(***************************************************************************)
PipelineRank(op) ==
    CASE op = "get_transaction_count" -> 1
      [] op = "gas_price"             -> 2
      [] op = "estimate_gas"          -> 3
      [] op = "sign_transaction"      -> 4
      [] op = "send_raw_transaction"  -> 5

C22_PipelineOrder ==
    \A t \in Tasks :
        /\ \A p, q \in DOMAIN events :
              ( /\ p < q
                /\ events[p].task = t /\ events[q].task = t
                /\ events[p].step = events[q].step
                /\ events[p].op \in PipelineOps /\ events[q].op \in PipelineOps ) =>
                   /\ PipelineRank(events[q].op) = PipelineRank(events[p].op) + 1
                         \/ \E m \in (p + 1)..(q - 1) :
                               /\ events[m].task = t
                               /\ events[m].op \in PipelineOps
                               /\ events[m].step = events[p].step
                   /\ events[p].ok \/ events[p].op = "estimate_gas"
        /\ \A q \in DOMAIN events :
              ( /\ events[q].task = t /\ events[q].op \in PipelineOps
                /\ ~\E p \in 1..(q - 1) :
                       /\ events[p].task = t /\ events[p].op \in PipelineOps
                       /\ events[p].step = events[q].step ) =>
                   events[q].op = "get_transaction_count"
        /\ \A q \in EventsOf(t, "send_raw_transaction") :
              \E p \in AtStep(OkEventsOf(t, "sign_transaction"), events[q].step) :
                 /\ p < q
                 /\ events[q].arg = [tx |-> events[p].arg, signer |-> "0xKey"]
                 /\ \E c \in AtStep(EventsOf(t, "execute_transaction"), events[q].step),
                       n \in AtStep(OkEventsOf(t, "get_transaction_count"), events[q].step),
                       g \in AtStep(OkEventsOf(t, "gas_price"), events[q].step) :
                       LET prepared == PrepareTransaction(events[c].arg, events[n].arg,
                                                          events[g].arg)
                       IN  /\ DOMAIN events[p].arg = DOMAIN prepared
                           /\ \A f \in DOMAIN prepared \ {"gas"} :
                                 events[p].arg[f] = prepared[f]
                           /\ \/ /\ events[p].arg["gas"] = prepared["gas"]
                                 /\ AtStep(OkEventsOf(t, "estimate_gas"), events[q].step) = {}
                              \/ \E e \in AtStep(OkEventsOf(t, "estimate_gas"),
                                                 events[q].step) :
                                    events[p].arg["gas"] = (6 * events[e].arg) \div 5
        /\ (task[t].op = "execute_transaction" /\ task[t].pc = "returned") =>
              \E q \in OkEventsOf(t, "send_raw_transaction") :
                 /\ task[t].result = [hex |-> [keccak |-> events[q].arg]]
                 /\ task[t].result \in chain.pending
                 /\ Cardinality(EventsOf(t, "send_raw_transaction")) = 1

\* execute_transaction has returned the hash of its broadcast, made with
\* the estimate's gas limit and the descriptor's value.
C22_Witness ==
    \E t \in Tasks :
        /\ task[t].op = "execute_transaction"
        /\ task[t].pc = "returned"
        /\ \E q \in OkEventsOf(t, "send_raw_transaction") :
              /\ events[q].arg.tx["gas"] = (6 * RouteEstimate) \div 5
              /\ "value" \in DOMAIN events[q].arg.tx
              /\ task[t].result = [hex |-> [keccak |-> events[q].arg]]

(***************************************************************************)
(* C23: execute_route refuses no step for what it lacks: a step without a  *)
(* transaction, or whose transaction lacks to, data or value, is decoded   *)
(* with to = "", data = "" and value = "0" in their places, and            *)
(* execute_transaction is called for it, at its place in the order of the  *)
(* steps.                                                                  *)
(***************************************************************************)
C23_PermissiveDecode ==
    \A t \in Tasks : task[t].op = "execute_route" =>
        LET steps == IF "steps" \in DOMAIN task[t].route_data
                     THEN task[t].route_data["steps"] ELSE << >>
            calls == EventsOf(t, "execute_transaction")
        IN  /\ \A k \in calls :
                  LET step == steps[events[k].step + 1]
                      tx   == IF "transaction" \in DOMAIN step
                              THEN step["transaction"] ELSE << >>
                  IN  /\ events[k].arg.to = (IF "to" \in DOMAIN tx THEN tx["to"] ELSE "")
                      /\ events[k].arg.data =
                            (IF "data" \in DOMAIN tx THEN tx["data"] ELSE "")
                      /\ events[k].arg.value =
                            (IF "value" \in DOMAIN tx THEN tx["value"] ELSE <<0>>)
            /\ \A j \in 0..(Len(steps) - 1) :
                  /\ Cardinality(AtStep(calls, j)) <= 1
                  /\ j < task[t].i => Cardinality(AtStep(calls, j)) = 1
                  /\ (j = task[t].i /\ task[t].pc \notin {"route_check", "route_loop", "raised"})
                        => Cardinality(AtStep(calls, j)) = 1
            /\ \A p, q \in calls : p < q => events[p].step < events[q].step
            /\ (task[t].pc = "raised" /\ steps # << >>) =>
                  /\ AtStep(calls, task[t].i) # {}
                  /\ \/ \E k \in DOMAIN events : events[k].task = t /\ ~events[k].ok
                     \/ "status" \notin DOMAIN task[t].receipt

\* A route whose second step has no transaction has returned: the step
\* was executed, as an empty descriptor of value "0".
C23_Witness ==
    \E t \in Tasks :
        /\ task[t].op = "execute_route"
        /\ task[t].pc = "returned"
        /\ Len(task[t].route_data["steps"]) = 2
        /\ task[t].route_data["steps"][2] = << >>
        /\ \E k \in AtStep(EventsOf(t, "execute_transaction"), 1) :
              events[k].arg = [to |-> "", data |-> "", value |-> <<0>>]
        /\ Len(task[t].result) = 2

(***************************************************************************)
(* C24: when the quotes hold at least one route and the first route has no *)
(* steps, its list of steps being empty or absent, transfer raises         *)
(* StargateTransactionError and broadcasts nothing.                        *)
(***************************************************************************)
C24_FirstRouteWithoutSteps ==
    \A t \in Tasks : task[t].op = "transfer" =>
        \A k \in OkEventsOf(t, "http_response") :
            LET body == events[k].arg
            IN  ( /\ "quotes" \in DOMAIN body
                  /\ body["quotes"] # << >>
                  /\ \/ "steps" \notin DOMAIN body["quotes"][1]
                     \/ body["quotes"][1]["steps"] = << >> ) =>
                     /\ task[t].pc \in {"transfer_select", "route_check", "raised"}
                     /\ task[t].pc = "raised" => task[t].error = "StargateTransactionError"
                     /\ EventsOf(t, "send_raw_transaction") = {}
                     /\ chain.pending = {}

\* transfer has raised on a first route that has no steps.
C24_Witness ==
    \E t \in Tasks :
        /\ task[t].op = "transfer"
        /\ task[t].pc = "raised"
        /\ \E k \in OkEventsOf(t, "http_response") :
              /\ "quotes" \in DOMAIN events[k].arg
              /\ events[k].arg["quotes"] # << >>
              /\ events[k].arg["quotes"][1] = [steps |-> << >>]
        /\ task[t].error = "StargateTransactionError"

(***************************************************************************)
(* C25: the pause of execute_route is taken between steps only: after step *)
(* k is confirmed and before step k+1 starts, and not after the last step, *)
(* so that a run of N steps that succeeds pauses N-1 times and returns as  *)
(* soon as its last step is confirmed.                                     *)
(***************************************************************************)
C25_PauseBetweenStepsOnly ==
    \A t \in Tasks : task[t].op = "execute_route" =>
        LET N == IF "steps" \in DOMAIN task[t].route_data
                 THEN Len(task[t].route_data["steps"]) ELSE 0
        IN  /\ \A k \in EventsOf(t, "sleep") : events[k].step < N - 1
            /\ task[t].pc = "returned" => Cardinality(EventsOf(t, "sleep")) = N - 1

\* C25, as the code has it: a route of one step has returned after one
\* pause, which followed its only step.
C25_Witness ==
    \E t \in Tasks :
        /\ task[t].op = "execute_route"
        /\ task[t].pc = "returned"
        /\ Len(task[t].route_data["steps"]) = 1
        /\ Cardinality(EventsOf(t, "sleep")) = 1
        /\ \A k \in EventsOf(t, "sleep") : events[k].step = 0

(***************************************************************************)
(* C26: execute_route takes a step for confirmed once it has a receipt,    *)
(* whatever status the receipt reports: after a receipt of status 0 the    *)
(* route goes on, the next step is executed, and the identifier of the     *)
(* reverted transaction is in the list returned.                           *)
(***************************************************************************)
C26_RevertedStepDoesNotAbort ==
    \A t \in Tasks : task[t].op = "execute_route" =>
        \A k \in OkEventsOf(t, "wait_for_transaction_receipt") :
            LET receipt == events[k].arg.receipt
                j       == events[k].step
                N       == Len(task[t].route_data["steps"])
            IN  ("status" \in DOMAIN receipt /\ receipt["status"] = 0) =>
                   /\ k = Len(events) => task[t].pc \in {"route_confirm", "route_sleep"}
                   /\ task[t].pc # "route_confirm" =>
                         /\ Len(task[t].tx_hashes) > j
                         /\ task[t].tx_hashes[j + 1] = events[k].arg.query.tx_hash
                         /\ task[t].tx_hashes[j + 1] = HashOfStep(t, j)
                   /\ (task[t].pc = "raised" /\ task[t].i = j) => k < Len(events)
                   /\ task[t].pc = "raised" => task[t].i > j
                   /\ ( /\ j + 1 < N
                        /\ \/ task[t].i > j + 1
                           \/ task[t].i = j + 1 /\ task[t].pc # "route_loop" ) =>
                         AtStep(EventsOf(t, "execute_transaction"), j + 1) # {}
                   /\ task[t].pc = "returned" =>
                         /\ Len(task[t].result) = N
                         /\ task[t].result[j + 1] = events[k].arg.query.tx_hash

\* A route of two steps has returned both identifiers though its first
\* transaction was reverted.
C26_Witness ==
    \E t \in Tasks :
        /\ task[t].op = "execute_route"
        /\ task[t].pc = "returned"
        /\ Len(task[t].result) = 2
        /\ \E k \in AtStep(OkEventsOf(t, "wait_for_transaction_receipt"), 0) :
              /\ events[k].arg.receipt = [status |-> 0, blockNumber |-> 1]
              /\ task[t].result[1] = events[k].arg.query.tx_hash

(***************************************************************************)
(* C27: two execute_route calls run as concurrent tasks on one client and  *)
(* interleave at the pause after each step only.  As long as every         *)
(* transaction broadcast was confirmed by the wait that followed it, the   *)
(* count growing by one with each, no two transactions broadcast carry     *)
(* the same nonce, whichever task sent them.                               *)
(***************************************************************************)
C27_NoNonceSentTwice ==
    (\A k \in DOMAIN events :
         events[k].op = "wait_for_transaction_receipt" => events[k].ok) =>
        \A j, k \in DOMAIN events :
            ( /\ j # k
              /\ events[j].op = "send_raw_transaction" /\ events[j].ok
              /\ events[k].op = "send_raw_transaction" /\ events[k].ok ) =>
                events[j].arg.tx["nonce"] # events[k].arg.tx["nonce"]

\* Both tasks have returned from routes of two steps whose broadcasts
\* alternated: four transactions, four nonces.
C27_Witness ==
    /\ DOMAIN task = {1, 2}
    /\ \A t \in DOMAIN task : task[t].pc = "returned" /\ Len(task[t].result) = 2
    /\ \A k \in DOMAIN events :
          events[k].op = "wait_for_transaction_receipt" => events[k].ok
    /\ \E a, b, c, d \in DOMAIN events :
          /\ a < b /\ b < c /\ c < d
          /\ \A k \in {a, b, c, d} : events[k].op = "send_raw_transaction" /\ events[k].ok
          /\ events[a].task = 1 /\ events[b].task = 2
          /\ events[c].task = 1 /\ events[d].task = 2
          /\ Cardinality({events[k].arg.tx["nonce"] : k \in {a, b, c, d}}) = 4

\* The arguments of the call that task t is.
ArgsOf(t) == events[CHOOSE k \in DOMAIN events : events[k].task = t].arg

\* The integer part of amount * 10^decimals, every digit of the amount
\* taken into account.
ExactIntegerPart(amount, decimals) ==
    LET x == DecimalOfStr(amount)
        e == x.exp + decimals
    IN  IF e >= 0
        THEN StrOfInt(IntOfStr(x.digits \o Zeros(e)))
        ELSE StrOfInt(IntOfStr(SubSeq(x.digits, 1, Len(x.digits) + e)))

(***************************************************************************)
(* C28: format_token_amount undoes parse_token_amount: an amount in the    *)
(* smallest unit, parsed with some decimals and the result formatted with  *)
(* the same, comes back as it was; and format_token_amount returns the     *)
(* integer part of the amount times 10^decimals.                           *)
(***************************************************************************)
C28_FormatInvertsParse ==
    /\ \A t, u \in DOMAIN task :
          ( /\ task[t].op = "parse_token_amount" /\ task[t].pc = "returned"
            /\ task[u].op = "format_token_amount" /\ task[u].pc = "returned"
            /\ ArgsOf(u) = [amount |-> task[t].result, decimals |-> ArgsOf(t).decimals] ) =>
                task[u].result = ArgsOf(t).amount
    /\ \A u \in DOMAIN task :
          (task[u].op = "format_token_amount" /\ task[u].pc = "returned") =>
              task[u].result = ExactIntegerPart(ArgsOf(u).amount, ArgsOf(u).decimals)

\* C28, where it holds: "1500000" with 6 decimals was parsed to "1.5", and
\* "1.5" with 6 decimals formatted to "1500000".
C28_Witness ==
    /\ DOMAIN task = {1, 2}
    /\ task[1].op = "parse_token_amount" /\ task[2].op = "format_token_amount"
    /\ ArgsOf(1) = [amount |-> <<1, 5, 0, 0, 0, 0, 0>>, decimals |-> 6]
    /\ task[1].result = <<1, Dot, 5>>
    /\ ArgsOf(2) = [amount |-> <<1, Dot, 5>>, decimals |-> 6]
    /\ task[2].result = <<1, 5, 0, 0, 0, 0, 0>>

====
